---- MODULE Spec2Model ----
(***************************************************************************)
(* WordPress Environment Indicator (Chrome extension).                     *)
(*                                                                         *)
(* The module models                                                       *)
(*   - the hostname classifier of the content script and of the popup      *)
(*     (strings are sequences of one-character strings, so that            *)
(*     startsWith / endsWith / a case-insensitive regular expression are   *)
(*     computed character by character);                                   *)
(*   - the badge reconciler of the content script (injectBadge) acting on  *)
(*     a small DOM tree, with its triggers: the initial run, the           *)
(*     MutationObserver callback, the 100 ms timers, 'refresh' messages;   *)
(*   - the store write and the notification each pass ends with, and the   *)
(*     relay that consumes the notification;                               *)
(*   - the background script: the URL classifier and the toolbar badge;    *)
(*   - the popup: its environment card, its getWordPressInfo request and   *)
(*     the injection it falls back to;                                     *)
(*   - the information probe of the content script (getWordPressInfo),     *)
(*     its regular expressions computed character by character.            *)
(*                                                                         *)
(* Specifications:                                                         *)
(*   SpecClassify : the classifier as a pure function of a hostname drawn  *)
(*                  from a bounded set of strings;                         *)
(*   Spec         : one document, the host page and the content-script     *)
(*                  instances injected into it;                            *)
(*   SpecMessages : the same with the badge clicks and the relay;          *)
(*   SpecRelay    : one tab URL seen by the background, the popup and the  *)
(*                  content script;                                        *)
(*   SpecNavigation : the tab navigating from one document to another;     *)
(*   SpecProbe    : the popup's information exchange with a tab whose      *)
(*                  markup is drawn from a bounded set.                    *)
(***************************************************************************)
EXTENDS Naturals, Sequences, FiniteSets

VARIABLES
    host,        \* window.location.hostname / the classifier's argument
    cResult,     \* content script: result of detectEnvironmentType(host)
    pResult,     \* popup: result of detectEnvironmentType(host)
    href,        \* the path of window.location.href (its host is fixed)
    readyState,  \* document.readyState
    doc,         \* the document: body classes, generator meta, element tree
    inst,        \* content-script instances: [injected, dclPending, lastUrl, timers]
    store,       \* chrome.storage.local: currentEnvironment, currentUrl, detectedAt
    clock,       \* the source of new Date(); one tick per reconcile pass
    toBg,        \* messages in flight to the background script
    toExt,       \* messages the background re-broadcast to extension pages
    popupOpens,  \* chrome.action.openPopup() calls made
    pageOps,     \* history: changes the host page made to the document
    tab,         \* the browser tab: its URL, its toolbar badge, executeScript calls
    bgResult,    \* background: result of detectEnvironmentFromUrl(tab.url)
    popupUi,     \* the popup: its environment card and its three info fields
    markup,      \* the document's attributes that getWordPressInfo reads
    info,        \* the popup's getWordPressInfo exchange: answers, path, response
    toTab,       \* messages in flight to the tab (chrome.tabs.sendMessage)
    reply,       \* what the sender of a 'refresh' message got back, if it waits
    bgLog        \* the message tags the background script wrote to its console

vars == << host, cResult, pResult, href, readyState, doc, inst, store, clock,
           toBg, toExt, popupOpens, pageOps, tab, bgResult, popupUi, markup, info,
           toTab, reply, bgLog >>

\* the state of the extension outside the page
extVars == << tab, bgResult, popupUi, markup, info, toTab, reply, bgLog >>

classifyVars == << cResult, pResult >>

systemVars == << href, readyState, doc, inst, store, clock, toBg, toExt,
                 popupOpens, pageOps, tab, bgResult, popupUi, markup, info, toTab, reply,
                    bgLog >>

(***************************************************************************)
(* Strings                                                                 *)
(***************************************************************************)

UpperChars == << "A", "B", "C", "D", "E", "F", "G", "H", "I", "J", "K", "L", "M",
                 "N", "O", "P", "Q", "R", "S", "T", "U", "V", "W", "X", "Y", "Z" >>

LowerChars == << "a", "b", "c", "d", "e", "f", "g", "h", "i", "j", "k", "l", "m",
                 "n", "o", "p", "q", "r", "s", "t", "u", "v", "w", "x", "y", "z" >>

\* String.prototype.toLowerCase, one character
LowerChar(c) ==
    IF \E i \in 1..Len(UpperChars) : UpperChars[i] = c
    THEN LowerChars[CHOOSE i \in 1..Len(UpperChars) : UpperChars[i] = c]
    ELSE c

\* String.prototype.toLowerCase
toLowerCase(s) == [i \in 1..Len(s) |-> LowerChar(s[i])]

\* String.prototype.startsWith
startsWith(s, p) == Len(p) <= Len(s) /\ SubSeq(s, 1, Len(p)) = p

\* String.prototype.endsWith
endsWith(s, p) == Len(p) <= Len(s) /\ SubSeq(s, Len(s) - Len(p) + 1, Len(s)) = p

\* String.prototype.includes
includes(s, p) == \E i \in 1..(Len(s) + 1) : i + Len(p) - 1 <= Len(s) /\ SubSeq(s, i, i + Len(p) - 1) = p

\* RegExp.prototype.test for a pattern of plain lower-case letters with the
\* i flag (/staging/i): an unanchored, case-insensitive substring match
regexTestI(pattern, s) == \E folded \in {toLowerCase(s)} : includes(folded, pattern)

\* the same pattern without the i flag
regexTest(pattern, s) == includes(s, pattern)

(***************************************************************************)
(* Content script: configuration (CONFIG) and classifier                   *)
(***************************************************************************)

s_localhost == << "l", "o", "c", "a", "l", "h", "o", "s", "t" >>
s_127 == << "1", "2", "7", "." >>
s_dev == << ".", "d", "e", "v" >>
s_test == << ".", "t", "e", "s", "t" >>
s_local == << ".", "l", "o", "c", "a", "l" >>
p_staging == << "s", "t", "a", "g", "i", "n", "g" >>
p_stage == << "s", "t", "a", "g", "e" >>
p_preview == << "p", "r", "e", "v", "i", "e", "w" >>
p_demo == << "d", "e", "m", "o" >>
p_test == << "t", "e", "s", "t" >>
\* the default of the information fields
s_dash == << "-" >>
\* the value null where a string is expected
JsNull == << "null" >>

\* CONFIG.environment.developmentTlds
developmentTlds == << s_dev, s_test, s_local >>

\* CONFIG.environment.stagingPatterns: /staging/i, /stage/i, /preview/i, /demo/i, /test/i
stagingPatterns == << p_staging, p_stage, p_preview, p_demo, p_test >>

\* CONFIG.environment.types.development
configDevelopment ==
    [type |-> "development", name |-> "Development",
     localColor |-> "#28a745", tldColor |-> "#4f39f6"]

\* CONFIG.environment.types.staging
configStaging == [type |-> "staging", name |-> "Staging", color |-> "#e60076"]

\* null (no environment: production)
Null == [type |-> "null", name |-> "", color |-> "", icon |-> ""]

\* the outcome of a call that throws a TypeError
Thrown == [type |-> "TypeError", name |-> "", color |-> "", icon |-> ""]

\* a result variable before the call
Unset == [type |-> "unset", name |-> "", color |-> "", icon |-> ""]

svgIconsArray ==
    << [name |-> "development", icon |-> "<svg development>"],
       [name |-> "staging", icon |-> "<svg staging>"] >>

\* svgIconsArray().find(icon => icon.name === environmentType).icon;
\* find yields undefined when nothing matches and .icon then throws
getEnvironmentIcon(environmentType) ==
    LET hits == {i \in 1..Len(svgIconsArray) : svgIconsArray[i].name = environmentType}
    IN  IF hits = {}
        THEN "TypeError"
        ELSE svgIconsArray[CHOOSE i \in hits : \A j \in hits : i <= j].icon

isLocalDevelopment(hostname) ==
    hostname = s_localhost \/ startsWith(hostname, s_127)

isDevelopmentTLD(hostname) ==
    \E i \in 1..Len(developmentTlds) : endsWith(hostname, developmentTlds[i])

\* the staging patterns without their i flag
isStagingEnvironment_caseSensitive(hostname) ==
    \E i \in 1..Len(stagingPatterns) : regexTest(stagingPatterns[i], hostname)

isStagingEnvironment(hostname) ==
    \E i \in 1..Len(stagingPatterns) : regexTestI(stagingPatterns[i], hostname)

\* both development variants given the local colour
createDevelopmentEnvironment_oneColor(isLocal) ==
    [type |-> configDevelopment.type, name |-> configDevelopment.name,
     color |-> configDevelopment.localColor,
     icon |-> getEnvironmentIcon(configDevelopment.type)]

createDevelopmentEnvironment(isLocal) ==
    IF getEnvironmentIcon(configDevelopment.type) = "TypeError"
    THEN Thrown
    ELSE [type |-> configDevelopment.type, name |-> configDevelopment.name,
          color |-> IF isLocal THEN configDevelopment.localColor
                               ELSE configDevelopment.tldColor,
          icon |-> getEnvironmentIcon(configDevelopment.type)]

createStagingEnvironment ==
    IF getEnvironmentIcon(configStaging.type) = "TypeError"
    THEN Thrown
    ELSE [type |-> configStaging.type, name |-> configStaging.name,
          color |-> configStaging.color,
          icon |-> getEnvironmentIcon(configStaging.type)]

\* the staging rule tried before the suffix rule
detectEnvironmentType_stagingFirst(hostname) ==
    IF isLocalDevelopment(hostname) THEN createDevelopmentEnvironment(TRUE)
    ELSE IF isStagingEnvironment(hostname) THEN createStagingEnvironment
    ELSE IF isDevelopmentTLD(hostname) THEN createDevelopmentEnvironment(FALSE)
    ELSE Null

\* the suffix rule tried before the local rule
detectEnvironmentType_tldFirst(hostname) ==
    IF isDevelopmentTLD(hostname) THEN createDevelopmentEnvironment(FALSE)
    ELSE IF isLocalDevelopment(hostname) THEN createDevelopmentEnvironment(TRUE)
    ELSE IF isStagingEnvironment(hostname) THEN createStagingEnvironment
    ELSE Null

\* production returned as a third environment value instead of null
detectEnvironmentType_production(hostname) ==
    IF isLocalDevelopment(hostname) THEN createDevelopmentEnvironment(TRUE)
    ELSE IF isDevelopmentTLD(hostname) THEN createDevelopmentEnvironment(FALSE)
    ELSE IF isStagingEnvironment(hostname) THEN createStagingEnvironment
    ELSE [type |-> "production", name |-> "Production", color |-> "", icon |-> ""]

detectEnvironmentType(hostname) ==
    IF isLocalDevelopment(hostname) THEN createDevelopmentEnvironment(TRUE)
    ELSE IF isDevelopmentTLD(hostname) THEN createDevelopmentEnvironment(FALSE)
    ELSE IF isStagingEnvironment(hostname) THEN createStagingEnvironment
    ELSE Null

(***************************************************************************)
(* Popup: configuration and classifier                                     *)
(***************************************************************************)

\* ENVIRONMENT_CONFIG of the popup; its values carry no icon
popup_ENVIRONMENT_CONFIG ==
    [development |-> [type |-> "development", name |-> "Development",
                      color |-> "#28a745", icon |-> ""],
     staging |-> [type |-> "staging", name |-> "Staging",
                  color |-> "#ffc107", icon |-> ""]]

popup_DEVELOPMENT_TLDS == << s_dev, s_test, s_local >>

popup_STAGING_PATTERNS == << p_staging, p_stage, p_preview, p_demo, p_test >>

popup_isLocalDevelopment(hostname) ==
    hostname = s_localhost \/ startsWith(hostname, s_127)

popup_isDevelopmentTLD(hostname) ==
    \E i \in 1..Len(popup_DEVELOPMENT_TLDS) : endsWith(hostname, popup_DEVELOPMENT_TLDS[i])

popup_isStagingEnvironment(hostname) ==
    \E i \in 1..Len(popup_STAGING_PATTERNS) : regexTestI(popup_STAGING_PATTERNS[i], hostname)

\* the staging rule tried before the development rules
popup_detectEnvironmentType_stagingFirst(hostname) ==
    IF popup_isStagingEnvironment(hostname)
    THEN popup_ENVIRONMENT_CONFIG.staging
    ELSE IF popup_isLocalDevelopment(hostname) \/ popup_isDevelopmentTLD(hostname)
    THEN popup_ENVIRONMENT_CONFIG.development
    ELSE Null

popup_detectEnvironmentType(hostname) ==
    IF popup_isLocalDevelopment(hostname) \/ popup_isDevelopmentTLD(hostname)
    THEN popup_ENVIRONMENT_CONFIG.development
    ELSE IF popup_isStagingEnvironment(hostname)
    THEN popup_ENVIRONMENT_CONFIG.staging
    ELSE Null

(***************************************************************************)
(* The original content script and popup: their classifiers                *)
(***************************************************************************)

\* an original content script whose staging patterns lack the i flag
original_detectEnvironment_caseSensitive(hostname) ==
    IF hostname = s_localhost \/ startsWith(hostname, s_127)
    THEN [type |-> "development", name |-> "Development", color |-> "#28a745",
          icon |-> getEnvironmentIcon("development")]
    ELSE IF endsWith(hostname, s_dev) \/ endsWith(hostname, s_test)
            \/ endsWith(hostname, s_local)
    THEN [type |-> "development", name |-> "Development", color |-> "#4f39f6",
          icon |-> getEnvironmentIcon("development")]
    ELSE IF \E i \in 1..Len(stagingPatterns) : regexTest(stagingPatterns[i], hostname)
    THEN [type |-> "staging", name |-> "Staging", color |-> "#e60076",
          icon |-> getEnvironmentIcon("staging")]
    ELSE Null

\* detectEnvironment of the original content script, on location.hostname
original_detectEnvironment(hostname) ==
    IF hostname = s_localhost \/ startsWith(hostname, s_127)
    THEN [type |-> "development", name |-> "Development", color |-> "#28a745",
          icon |-> getEnvironmentIcon("development")]
    ELSE IF endsWith(hostname, s_dev) \/ endsWith(hostname, s_test)
            \/ endsWith(hostname, s_local)
    THEN [type |-> "development", name |-> "Development", color |-> "#4f39f6",
          icon |-> getEnvironmentIcon("development")]
    ELSE IF \E i \in 1..Len(stagingPatterns) : regexTestI(stagingPatterns[i], hostname)
    THEN [type |-> "staging", name |-> "Staging", color |-> "#e60076",
          icon |-> getEnvironmentIcon("staging")]
    ELSE Null

\* the environment detectEnvironmentInPopup of the original popup computes
\* from the hostname of the URL
original_detectEnvironmentInPopup(hostname) ==
    IF hostname = s_localhost \/ startsWith(hostname, s_127)
    THEN [type |-> "development", name |-> "Development", color |-> "#28a745",
          icon |-> ""]
    ELSE IF endsWith(hostname, s_dev) \/ endsWith(hostname, s_test)
            \/ endsWith(hostname, s_local)
    THEN [type |-> "development", name |-> "Development", color |-> "#28a745",
          icon |-> ""]
    ELSE IF \E i \in 1..Len(stagingPatterns) : regexTestI(stagingPatterns[i], hostname)
    THEN [type |-> "staging", name |-> "Staging", color |-> "#ffc107", icon |-> ""]
    ELSE Null

(***************************************************************************)
(* The document                                                            *)
(*                                                                         *)
(* doc.bodyClasses : document.body.classList                               *)
(* doc.generator   : the content of the meta[name="generator"] elements,   *)
(*                   in document order                                     *)
(* doc.kids        : the element tree below body: for each container       *)
(*                   element (by id) the sequence of its children          *)
(***************************************************************************)

s_WordPress == << "W", "o", "r", "d", "P", "r", "e", "s", "s" >>
s_generatorWordPress == s_WordPress \o << " ", "6", ".", "4", ".", "2" >>
s_generatorOther == << "J", "o", "o", "m", "l", "a", "!" >>

\* CONFIG.badge.element.id
badgeId == "wp-admin-bar-wp-env-indicator"

\* CONFIG.badge.injectionSelectors
injectionSelectors ==
    << "#wp-admin-bar-site-name", "#wp-admin-bar-root-default", "#wpadminbar .ab-top-menu" >>

\* CONFIG.wordpress.bodyClasses
wordpressBodyClasses == << "wp-admin", "admin-bar" >>

\* CONFIG.wordpress.elementIds
wordpressElementIds == << "#wpbody", "#wpcontent", "#wpfooter" >>

\* the elements of the page that have children in this model
ContainerIds ==
    {"body", "wpadminbar", "wp-admin-bar-root-default", "wp-admin-bar-top-secondary"}

\* an element of the host page
Element(id, classes) == [id |-> id, classes |-> classes, linkClasses |-> {}, text |-> ""]

NoElement ==
    [node |-> Element("", {}), parent |-> "", index |-> 0, ancestors |-> {}]

\* the elements from the i-th child of container cid on, in document order,
\* each with its parent, its position under it and its ancestors
RECURSIVE Walk(_, _, _, _)
Walk(kids, cid, i, anc) ==
    IF i > Len(kids[cid])
    THEN << >>
    ELSE LET n == kids[cid][i]
             me == [node |-> n, parent |-> cid, index |-> i, ancestors |-> anc]
             below == IF n.id \in ContainerIds
                      THEN Walk(kids, n.id, 1, anc \cup {n.id})
                      ELSE << >>
         IN  << me >> \o below \o Walk(kids, cid, i + 1, anc)

documentOrder(d) == Walk(d.kids, "body", 1, {})

SelectorId ==
    [s \in {"#wpadminbar", "#wpbody", "#wpcontent", "#wpfooter",
            "#wp-admin-bar-site-name", "#wp-admin-bar-root-default"} |->
        CASE s = "#wpadminbar" -> "wpadminbar"
          [] s = "#wpbody" -> "wpbody"
          [] s = "#wpcontent" -> "wpcontent"
          [] s = "#wpfooter" -> "wpfooter"
          [] s = "#wp-admin-bar-site-name" -> "wp-admin-bar-site-name"
          [] s = "#wp-admin-bar-root-default" -> "wp-admin-bar-root-default"]

\* Element.matches for the selectors the extension uses
Matches(selector, e) ==
    IF selector = "#wpadminbar .ab-top-menu"
    THEN "ab-top-menu" \in e.node.classes /\ "wpadminbar" \in e.ancestors
    ELSE e.node.id = SelectorId[selector]

\* a query is [by |-> "selector", arg |-> a selector] or [by |-> "id", arg |-> an id]
Answers(query, e) ==
    IF query.by = "id" THEN e.node.id = query.arg ELSE Matches(query.arg, e)

\* the first element in document order, from the i-th child of container cid
\* on, that answers the query, or NoElement (null)
RECURSIVE QueryFirst(_, _, _, _, _)
QueryFirst(kids, cid, i, anc, query) ==
    IF i > Len(kids[cid])
    THEN NoElement
    ELSE LET n == kids[cid][i]
             me == [node |-> n, parent |-> cid, index |-> i, ancestors |-> anc]
         IN  IF Answers(query, me) THEN me
             ELSE IF n.id \in ContainerIds
                     /\ QueryFirst(kids, n.id, 1, anc \cup {n.id}, query) # NoElement
                  THEN QueryFirst(kids, n.id, 1, anc \cup {n.id}, query)
                  ELSE QueryFirst(kids, cid, i + 1, anc, query)

querySelector(d, selector) ==
    QueryFirst(d.kids, "body", 1, {}, [by |-> "selector", arg |-> selector])

getElementById(d, id) == QueryFirst(d.kids, "body", 1, {}, [by |-> "id", arg |-> id])

RemoveAt(seq, i) == SubSeq(seq, 1, i - 1) \o SubSeq(seq, i + 1, Len(seq))

InsertAt(seq, i, x) == SubSeq(seq, 1, i - 1) \o << x >> \o SubSeq(seq, i, Len(seq))

\* the BadgeNodes of the document
BadgeEntries(d) ==
    LET es == documentOrder(d)
    IN  {i \in 1..Len(es) : es[i].node.id = badgeId}

BadgeCount(d) == Cardinality(BadgeEntries(d))

(***************************************************************************)
(* Content script: site detection                                          *)
(***************************************************************************)

hasWordPressAdminBar(d) == querySelector(d, "#wpadminbar") # NoElement

\* only the class of the admin screens counts
hasWordPressBodyClasses_wpAdminOnly(d) == wordpressBodyClasses[1] \in d.bodyClasses

hasWordPressBodyClasses(d) ==
    \E i \in 1..Len(wordpressBodyClasses) : wordpressBodyClasses[i] \in d.bodyClasses

hasWordPressElements(d) ==
    \E i \in 1..Len(wordpressElementIds) : querySelector(d, wordpressElementIds[i]) # NoElement

hasWordPressGenerator(d) ==
    Len(d.generator) > 0 /\ includes(d.generator[1], s_WordPress)

isWordPressSite(d) ==
    \/ hasWordPressAdminBar(d)
    \/ hasWordPressBodyClasses(d)
    \/ hasWordPressElements(d)
    \/ hasWordPressGenerator(d)

\* WORDPRESS_DETECTION_METHODS tried from the last to the first, each call
\* made only when the ones before it returned false
isWordPressSite_reversed(d) ==
    IF hasWordPressGenerator(d) THEN TRUE
    ELSE IF hasWordPressElements(d) THEN TRUE
    ELSE IF hasWordPressBodyClasses(d) THEN TRUE
    ELSE hasWordPressAdminBar(d)

\* isWordPressSite of the original content script: four if statements
original_isWordPressSite(d) ==
    IF querySelector(d, "#wpadminbar") # NoElement
       /\ querySelector(d, "#wpadminbar") # NoElement
    THEN TRUE
    ELSE IF "wp-admin" \in d.bodyClasses \/ "admin-bar" \in d.bodyClasses
    THEN TRUE
    ELSE IF \/ querySelector(d, "#wpbody") # NoElement
            \/ querySelector(d, "#wpcontent") # NoElement
            \/ querySelector(d, "#wpfooter") # NoElement
    THEN TRUE
    ELSE IF Len(d.generator) > 0 /\ includes(d.generator[1], s_WordPress)
    THEN TRUE
    ELSE FALSE

(***************************************************************************)
(* Content script: the badge and the reconcile pass                        *)
(***************************************************************************)

detectEnvironment == detectEnvironmentType(host)

\* createBadgeContainer, createBadgeLink, createBadgeText: the <li> with the
\* reserved id, its link's classes and the text of the link's <span>
createEnvironmentBadge(environment) ==
    [id |-> badgeId,
     classes |-> {"wp-env-badge"},
     linkClasses |-> {"ab-item", "wp-env-badge-link",
                      IF environment.type = "development" THEN "wp-env-development"
                      ELSE IF environment.type = "staging" THEN "wp-env-staging"
                      ELSE "wp-env-" },
     text |-> environment.name]

\* a reconcile that keeps the badge it finds
removeExistingBadge_keep(d) == d

removeExistingBadge(d) ==
    LET existingBadge == getElementById(d, badgeId)
    IN  IF existingBadge # NoElement
        THEN [d EXCEPT !.kids[existingBadge.parent] = RemoveAt(@, existingBadge.index)]
        ELSE d

\* the verdict alone decides, the site detection is skipped
shouldInjectBadge_anySite(d) == detectEnvironment # Null

shouldInjectBadge(d) == isWordPressSite(d) /\ detectEnvironment # Null

\* only the site-name anchor is looked for
findBadgeInjectionPoint_siteNameOnly(d) == querySelector(d, injectionSelectors[1])

\* the selectors tried from the last to the first
findBadgeInjectionPoint_lastFirst(d) ==
    LET found == {i \in 1..Len(injectionSelectors) :
                     querySelector(d, injectionSelectors[i]) # NoElement}
    IN  IF found = {} THEN NoElement
        ELSE querySelector(d, injectionSelectors[CHOOSE i \in found : \A j \in found : i >= j])

findBadgeInjectionPoint(d) ==
    LET found == {i \in 1..Len(injectionSelectors) :
                     querySelector(d, injectionSelectors[i]) # NoElement}
    IN  IF found = {} THEN NoElement
        ELSE querySelector(d, injectionSelectors[CHOOSE i \in found : \A j \in found : i <= j])

\* an insertion that drops the siblings after the anchor
injectBadgeAtElement_dropSiblings(d, targetElement, badge) ==
    [d EXCEPT !.kids[targetElement.parent] =
                  SubSeq(@, 1, targetElement.index) \o << badge >>]

injectBadgeAtElement(d, targetElement, badge) ==
    IF targetElement.node.id = "wp-admin-bar-site-name"
    THEN \* parentNode.insertBefore(badge, targetElement.nextSibling)
         [d EXCEPT !.kids[targetElement.parent] = InsertAt(@, targetElement.index + 1, badge)]
    ELSE \* targetElement.appendChild(badge)
         [d EXCEPT !.kids[targetElement.node.id] = Append(@, badge)]

(***************************************************************************)
(* Bounds and input domains                                                *)
(***************************************************************************)

MaxTokens == 2      \* hostnames are built from at most this many fragments
MaxInstances == 2   \* content-script instances injected into the document
MaxTimers == 1      \* pending setTimeout(injectBadge, 100) per instance
MaxPasses == 3      \* reconcile passes in one run
MaxPageOps == 1     \* changes the host page makes to the document
MaxClicks == 1      \* clicks on the badge link
MaxLoads == 2       \* times the popup loads its environment data
MaxNavigations == 1 \* navigations of the tab to another document

\* fragments the hostnames of SpecClassify are concatenated from
HostTokens ==
    { s_localhost, s_127, s_dev, s_test, s_local,
      p_staging, p_stage, p_preview, p_demo, p_test,
      << "L", "O", "C", "A", "L", "H", "O", "S", "T" >>,
      << "S", "T", "A", "G", "I", "N", "G" >>,
      << "D", "e", "m", "o" >>,
      << ".", "T", "E", "S", "T" >>,
      << ".", "D", "e", "v" >>,
      << "0", ".", "0", ".", "1" >>,
      << ".", "e", "x", "a", "m", "p", "l", "e", ".", "c", "o", "m" >>,
      << "w", "w", "w" >>,
      << "x" >> }

RECURSIVE HostsOfLength(_)
HostsOfLength(n) ==
    IF n = 0 THEN { << >> }
    ELSE {h \o t : h \in HostsOfLength(n - 1), t \in HostTokens}

Hostnames == UNION {HostsOfLength(n) : n \in 1..MaxTokens}

h_stagingExample == p_staging \o << ".", "e", "x", "a", "m", "p", "l", "e", ".", "c", "o", "m" >>
h_wwwExample == << "w", "w", "w", ".", "e", "x", "a", "m", "p", "l", "e", ".", "c", "o", "m" >>

\* the hostnames of the documents (lower-case, as the browser gives them): of
\* Spec, one with a verdict and one without; of SpecMessages, one of each kind
HostSample == {s_localhost, h_wwwExample}

HostKinds == {s_localhost, h_stagingExample, h_wwwExample}

\* the paths pushState moves between
Urls == {"/wp-admin/", "/wp-admin/edit.php"}

e_wpadminbar == Element("wpadminbar", {})
e_rootDefault == Element("wp-admin-bar-root-default", {"ab-top-menu"})
e_topSecondary == Element("wp-admin-bar-top-secondary", {"ab-top-menu", "ab-top-secondary"})
e_siteName == Element("wp-admin-bar-site-name", {"menupop"})
e_wpLogo == Element("wp-admin-bar-wp-logo", {"menupop"})
e_comments == Element("wp-admin-bar-comments", {})
e_myAccount == Element("wp-admin-bar-my-account", {"menupop"})
e_wpbody == Element("wpbody", {})

NoKids == [c \in ContainerIds |-> << >>]

\* a WordPress admin screen
d_admin ==
    [bodyClasses |-> {"wp-admin"}, generator |-> << >>,
     kids |-> [NoKids EXCEPT !["body"] = << e_wpadminbar, e_wpbody >>,
                             !["wpadminbar"] = << e_rootDefault, e_topSecondary >>,
                             !["wp-admin-bar-root-default"] = << e_wpLogo, e_siteName, e_comments >>,
                             !["wp-admin-bar-top-secondary"] = << e_myAccount >>]]

\* a front-end page of a logged-in user whose admin bar has no site-name entry
d_noSiteName ==
    [bodyClasses |-> {"admin-bar"}, generator |-> << s_generatorWordPress >>,
     kids |-> [NoKids EXCEPT !["body"] = << e_wpadminbar >>,
                             !["wpadminbar"] = << e_topSecondary, e_rootDefault >>,
                             !["wp-admin-bar-root-default"] = << e_wpLogo >>,
                             !["wp-admin-bar-top-secondary"] = << e_myAccount >>]]

\* an admin bar that holds the secondary menu only
d_secondaryOnly ==
    [bodyClasses |-> {"admin-bar"}, generator |-> << >>,
     kids |-> [NoKids EXCEPT !["body"] = << e_wpadminbar >>,
                             !["wpadminbar"] = << e_topSecondary >>,
                             !["wp-admin-bar-top-secondary"] = << e_myAccount >>]]

\* a front-end page of a visitor: a WordPress site without admin bar
d_visitor ==
    [bodyClasses |-> {}, generator |-> << s_generatorWordPress >>, kids |-> NoKids]

\* a page whose only WordPress signal is the admin-bar class of body and whose
\* bar is rendered outside #wpadminbar (toggling the class leaves a page that
\* is no WordPress site and still holds the anchors)
d_barless ==
    [bodyClasses |-> {"admin-bar"}, generator |-> << s_generatorOther >>,
     kids |-> [NoKids EXCEPT !["body"] = << e_rootDefault >>,
                             !["wp-admin-bar-root-default"] = << e_siteName, e_comments >>]]

InitialDocs == {d_admin, d_noSiteName, d_secondaryOnly, d_visitor, d_barless}

\* the elements the host page may remove, and what it may append where
PageRemovals == {"wpadminbar", "wp-admin-bar-site-name"}

PageAppends ==
    { [to |-> "body", node |-> e_wpadminbar],
      [to |-> "wp-admin-bar-root-default", node |-> e_siteName] }

PageClasses == {"admin-bar"}

(***************************************************************************)
(* Content script: one reconcile pass (injectBadge)                        *)
(*                                                                         *)
(* A pass acts on w = [doc, store, clock, toBg, mutated]; mutated records  *)
(* that the pass removed or inserted a node (a childList mutation).        *)
(***************************************************************************)

World == [doc |-> doc, store |-> store, clock |-> clock, toBg |-> toBg, mutated |-> FALSE]

\* a write that leaves the URL of the store as it is
storeEnvironmentData_keepsUrl(w, environment) ==
    [w EXCEPT !.store = [@ EXCEPT !.currentEnvironment = environment,
                                  !.detectedAt = w.clock]]

\* chrome.storage.local.set({currentEnvironment, currentUrl, detectedAt}): one
\* call that sets the three keys and leaves the other keys of the store
storeEnvironmentData(w, environment) ==
    [w EXCEPT !.store = [@ EXCEPT !.currentEnvironment = environment,
                                  !.currentUrl = [hostname |-> host, path |-> href],
                                  !.detectedAt = w.clock]]

\* chrome.runtime.sendMessage({action: 'environmentUpdated', data: environment})
notifyEnvironmentChange(w, environment) ==
    [w EXCEPT !.toBg = Append(@, [action |-> "environmentUpdated", data |-> environment])]

\* a pass that stops when it finds no anchor
injectBadgeAfterRemoval_stopWithoutAnchor(w, d1) ==
    IF ~shouldInjectBadge(d1) \/ findBadgeInjectionPoint(d1) = NoElement
    THEN [w EXCEPT !.doc = d1,
                   !.clock = @ + 1,
                   !.mutated = @ \/ d1 # w.doc]
    ELSE LET environment == detectEnvironment
             w1 == [w EXCEPT !.doc = injectBadgeAtElement(d1, findBadgeInjectionPoint(d1),
                                                         createEnvironmentBadge(environment)),
                             !.clock = @ + 1,
                             !.mutated = TRUE]
         IN  notifyEnvironmentChange(storeEnvironmentData(w1, environment), environment)

\* injectBadge after its first statement left the document as d1
injectBadgeAfterRemoval(w, d1) ==
    IF ~shouldInjectBadge(d1)
    THEN [w EXCEPT !.doc = d1,
                   !.clock = @ + 1,
                   !.mutated = @ \/ d1 # w.doc]
    ELSE LET environment == detectEnvironment
             badge == createEnvironmentBadge(environment)
             injectionPoint == findBadgeInjectionPoint(d1)
             w1 == [w EXCEPT !.doc = IF injectionPoint # NoElement
                                     THEN injectBadgeAtElement(d1, injectionPoint, badge)
                                     ELSE d1,
                             !.clock = @ + 1,
                             !.mutated = @ \/ d1 # w.doc \/ injectionPoint # NoElement]
         IN  notifyEnvironmentChange(storeEnvironmentData(w1, environment), environment)

\* (the sets of one element make TLC compute the intermediate document once)
injectBadge(w) ==
    CHOOSE r \in {injectBadgeAfterRemoval(w, d1) : d1 \in {removeExistingBadge(w.doc)}} : TRUE

\* n passes one after the other in one task
RECURSIVE injectBadgeTimes(_, _)
injectBadgeTimes(w, n) ==
    IF n = 0 THEN w
    ELSE CHOOSE r \in {injectBadgeTimes(v, n - 1) : v \in {injectBadge(w)}} : TRUE

(***************************************************************************)
(* Content script: instances, observer, timers                             *)
(***************************************************************************)

Instances == 1..MaxInstances

NotInjected == [injected |-> FALSE, dclPending |-> FALSE, lastUrl |-> "", timers |-> 0]

\* the MutationObserver callback of every instance, run after a task that
\* changed the child lists of the document:
\*   if (currentUrl !== lastUrl) { lastUrl = currentUrl; setTimeout(injectBadge, 100) }
\* a callback that never updates its last-seen URL
observerCallback_keepsLastUrl(I) ==
    [i \in Instances |->
        IF I[i].injected /\ I[i].lastUrl # href
        THEN [I[i] EXCEPT !.timers = @ + 1]
        ELSE I[i]]

observerCallback(I) ==
    [i \in Instances |->
        IF I[i].injected /\ I[i].lastUrl # href
        THEN [I[i] EXCEPT !.lastUrl = href, !.timers = @ + 1]
        ELSE I[i]]

\* no instance would exceed its bound of pending timers
TimersFit(I) == \A i \in Instances : I[i].timers <= MaxTimers

AfterTask(I, mutated) == IF mutated THEN observerCallback(I) ELSE I

\* the effects of a task that ran n passes and left the instances as I
Reconciled(n, I) ==
    /\ clock + n <= MaxPasses
    /\ \E w \in {injectBadgeTimes(World, n)} :
        /\ TimersFit(AfterTask(I, w.mutated))
        /\ doc' = w.doc
        /\ store' = w.store
        /\ clock' = w.clock
        /\ toBg' = w.toBg
        /\ inst' = AfterTask(I, w.mutated)
    /\ UNCHANGED << host, cResult, pResult, href, readyState, toExt, popupOpens, pageOps >>
    /\ UNCHANGED << tab, bgResult, popupUi, markup, info, toTab, bgLog >>

\* the script is executed in the document: init() runs injectBadge, or defers
\* it to DOMContentLoaded while the document is loading, then starts its
\* observer with lastUrl = location.href
InjectContentScript(i) ==
    /\ ~inst[i].injected
    /\ UNCHANGED extVars
    /\ \A j \in Instances : j < i => inst[j].injected
    /\ IF readyState = "loading"
       THEN /\ inst' = [inst EXCEPT ![i] = [injected |-> TRUE, dclPending |-> TRUE,
                                            lastUrl |-> href, timers |-> 0]]
            /\ UNCHANGED << host, cResult, pResult, href, readyState, doc, store, clock,
                            toBg, toExt, popupOpens, pageOps >>
       ELSE /\ clock + 1 <= MaxPasses
            /\ \E w \in {injectBadge(World)} :
               LET others == AfterTask(inst, w.mutated)
               IN  /\ TimersFit(others)
                   /\ doc' = w.doc
                   /\ store' = w.store
                   /\ clock' = w.clock
                   /\ toBg' = w.toBg
                   /\ inst' = [others EXCEPT ![i] = [injected |-> TRUE, dclPending |-> FALSE,
                                                     lastUrl |-> href, timers |-> 0]]
            /\ UNCHANGED << host, cResult, pResult, href, readyState, toExt, popupOpens, pageOps >>

\* DOMContentLoaded: the listeners of the instances that deferred run in turn
DOMContentLoaded ==
    /\ readyState = "loading"
    /\ LET waiting == {i \in Instances : inst[i].dclPending}
           done == [i \in Instances |-> [inst[i] EXCEPT !.dclPending = FALSE]]
       IN  /\ clock + Cardinality(waiting) <= MaxPasses
           /\ \E w \in {injectBadgeTimes(World, Cardinality(waiting))} :
                 /\ TimersFit(AfterTask(done, w.mutated))
                 /\ doc' = w.doc
                 /\ store' = w.store
                 /\ clock' = w.clock
                 /\ toBg' = w.toBg
                 /\ inst' = AfterTask(done, w.mutated)
    /\ readyState' = "interactive"
    /\ UNCHANGED << host, cResult, pResult, href, toExt, popupOpens, pageOps >>
    /\ UNCHANGED extVars

\* a timer set by the observer callback fires: injectBadge
TimerFires(i) ==
    /\ inst[i].timers > 0
    /\ Reconciled(1, [inst EXCEPT ![i].timers = @ - 1])
    /\ UNCHANGED reply

\* the sender of 'refresh' got no answer yet; awaited tells whether it
\* passed a callback (a response nobody waits for is dropped)
NoReply(awaited) == [awaited |-> awaited, to |-> "unset", value |-> "unset", at |-> 0]

\* the response is sent before the pass
refreshAnsweredAt_beforePass(c) == c

\* injectBadge(); sendResponse({success: true}): the first listener answers
\* when its own pass has returned, the clock then reading c + 1
refreshAnsweredAt(c) == c + 1

\* a 'refresh' message reaches the tab: the listener of every instance runs
\* injectBadge and answers {success: true}; the sender gets the first answer
OnRefreshMessage ==
    /\ \E i \in Instances : inst[i].injected
    /\ Reconciled(Cardinality({i \in Instances : inst[i].injected}), inst)
    /\ reply' = IF reply.awaited
                THEN [awaited |-> TRUE, to |-> "refresh", value |-> "success",
                      at |-> refreshAnsweredAt(clock)]
                ELSE reply

\* a badge whose link carries the click handler twice
BadgeClick_twice ==
    /\ BadgeCount(doc) > 0
    /\ popupOpens + Cardinality({k \in 1..Len(toBg) : toBg[k].action = "openPopup"}) < MaxClicks
    /\ toBg' = toBg \o << [action |-> "openPopup", data |-> Null],
                          [action |-> "openPopup", data |-> Null] >>
    /\ UNCHANGED << host, cResult, pResult, href, readyState, doc, inst, store, clock,
                    toExt, popupOpens, pageOps >>
    /\ UNCHANGED extVars

\* a click on the badge link: sendMessage({action: 'openPopup'})
BadgeClick ==
    /\ BadgeCount(doc) > 0
    /\ popupOpens + Cardinality({k \in 1..Len(toBg) : toBg[k].action = "openPopup"}) < MaxClicks
    /\ toBg' = Append(toBg, [action |-> "openPopup", data |-> Null])
    /\ UNCHANGED << host, cResult, pResult, href, readyState, doc, inst, store, clock,
                    toExt, popupOpens, pageOps >>
    /\ UNCHANGED extVars

(***************************************************************************)
(* The host page                                                           *)
(***************************************************************************)

\* history.pushState: the URL changes, the document stays
\* a content script that listens to the URL change itself and reconciles at once
PushState_reconciles(u) ==
    /\ u # href
    /\ href' = u
    /\ clock + 1 <= MaxPasses
    /\ \E w \in {injectBadge(World)} :
          /\ doc' = w.doc
          /\ store' = w.store
          /\ clock' = w.clock
          /\ toBg' = w.toBg
    /\ UNCHANGED << host, cResult, pResult, readyState, inst, toExt, popupOpens, pageOps >>
    /\ UNCHANGED extVars

PushState(u) ==
    /\ u # href
    /\ href' = u
    /\ UNCHANGED << host, cResult, pResult, readyState, doc, inst, store, clock,
                    toBg, toExt, popupOpens, pageOps >>
    /\ UNCHANGED extVars

RECURSIVE ClearBelow(_, _, _)
\* kids without the subtrees of the children of cid from the i-th on
ClearBelow(kids, cid, i) ==
    IF i > Len(kids[cid])
    THEN [kids EXCEPT ![cid] = << >>]
    ELSE IF kids[cid][i].id \in ContainerIds
         THEN ClearBelow(ClearBelow(kids, kids[cid][i].id, 1), cid, i + 1)
         ELSE ClearBelow(kids, cid, i + 1)

PageChanged(d) ==
    /\ pageOps < MaxPageOps
    /\ pageOps' = pageOps + 1
    /\ doc' = d
    /\ UNCHANGED << host, cResult, pResult, href, readyState, store, clock,
                    toBg, toExt, popupOpens >>
    /\ UNCHANGED extVars

\* the page removes an element with everything below it
PageRemoves(id) ==
    LET e == getElementById(doc, id)
        below == IF id \in ContainerIds THEN ClearBelow(doc.kids, id, 1) ELSE doc.kids
    IN  /\ e # NoElement
        /\ TimersFit(observerCallback(inst))
        /\ PageChanged([doc EXCEPT !.kids = [below EXCEPT ![e.parent] = RemoveAt(@, e.index)]])
        /\ inst' = observerCallback(inst)

\* the page appends an element it does not hold yet
PageAppends_(a) ==
    /\ getElementById(doc, a.node.id) = NoElement
    /\ a.to = "body" \/ getElementById(doc, a.to) # NoElement
    /\ TimersFit(observerCallback(inst))
    /\ PageChanged([doc EXCEPT !.kids[a.to] = Append(@, a.node)])
    /\ inst' = observerCallback(inst)

\* the page toggles a class of body: no childList mutation, no observer call
PageTogglesClass(c) ==
    /\ PageChanged([doc EXCEPT !.bodyClasses = IF c \in @ THEN @ \ {c} ELSE @ \cup {c}])
    /\ UNCHANGED inst

(***************************************************************************)
(* Background script: the relay                                            *)
(***************************************************************************)

\* the tags the background script has no case for, and how many messages of
\* such a tag one behaviour sends to it
ForeignTags == {"refresh", "getWordPressInfo"}

MaxForeign == 1

\* what the listener does besides its dispatch: the message is consumed
RelayFrame ==
    /\ toBg' = Tail(toBg)
    /\ UNCHANGED << host, cResult, pResult, href, readyState, doc, inst, store, clock,
                    pageOps >>
    /\ UNCHANGED << tab, bgResult, popupUi, markup, info, toTab, reply >>

\* a relay that also hands the message to its own listener again
RelayOnMessage_echo ==
    /\ toBg # << >>
    /\ toExt' = Append(toExt, Head(toBg))
    /\ toBg' = Append(Tail(toBg), Head(toBg))
    /\ UNCHANGED << host, cResult, pResult, href, readyState, doc, inst, store, clock,
                    pageOps, popupOpens >>
    /\ UNCHANGED extVars

\* a relay that re-broadcasts whatever it receives
RelayOnMessage_broadcastAll ==
    /\ toBg # << >>
    /\ toExt' = Append(toExt, Head(toBg))
    /\ UNCHANGED << popupOpens, bgLog >>
    /\ RelayFrame

\* chrome.runtime.onMessage listener of the background script
RelayOnMessage ==
    /\ toBg # << >>
    /\ LET request == Head(toBg)
       IN  CASE request.action = "openPopup" ->
                   /\ popupOpens' = popupOpens + 1
                   /\ UNCHANGED << toExt, bgLog >>
             [] request.action = "environmentUpdated" ->
                   /\ toExt' = Append(toExt, [action |-> "environmentUpdated",
                                              data |-> request.data])
                   /\ UNCHANGED << popupOpens, bgLog >>
             [] OTHER ->
                   /\ bgLog' = bgLog \cup {request.action}
                   /\ UNCHANGED << toExt, popupOpens >>
    /\ RelayFrame

\* a message of another tag reaches the background script (no part of the
\* extension sends one to it)
ForeignMessage(tag) ==
    /\ Cardinality(bgLog) + Cardinality({k \in 1..Len(toBg) : toBg[k].action \in ForeignTags})
          < MaxForeign
    /\ tag \notin bgLog
    /\ toBg' = Append(toBg, [action |-> tag, data |-> Null])
    /\ UNCHANGED << host, cResult, pResult, href, readyState, doc, inst, store, clock,
                    toExt, popupOpens, pageOps >>
    /\ UNCHANGED extVars

\* a re-broadcast message is delivered to the extension pages listening, or
\* is lost when none is
ExtensionDelivery ==
    /\ toExt # << >>
    /\ toExt' = Tail(toExt)
    /\ UNCHANGED << host, cResult, pResult, href, readyState, doc, inst, store, clock,
                    toBg, popupOpens, pageOps >>
    /\ UNCHANGED extVars

(***************************************************************************)
(* Specification of the document and its content scripts                   *)
(***************************************************************************)

NoStore == [currentEnvironment |-> Unset, currentUrl |-> [hostname |-> << >>, path |-> ""],
            detectedAt |-> 0, version |-> "unset", installedAt |-> 0]

\* a document of one of the hosts, as the browser hands it to the first
\* content script: still loading or loaded, no script injected yet
InitPage(hosts, docs, readyStates) ==
    /\ host \in hosts
    /\ cResult = Unset
    /\ pResult = Unset
    /\ href = "/wp-admin/"
    /\ readyState \in readyStates
    /\ doc \in docs
    /\ inst = [i \in Instances |-> NotInjected]
    /\ store = NoStore
    /\ clock = 0
    /\ toBg = << >>
    /\ toExt = << >>
    /\ popupOpens = 0
    /\ pageOps = 0

\* the toolbar of a tab the background has not handled yet; other is the
\* toolbar of a second tab of the window, which has no URL yet
NoTab(url) ==
    [url |-> url, badgeText |-> "unset", badgeColor |-> "unset", title |-> << "unset" >>,
     executeScriptCalls |-> 0, navigations |-> 0,
     other |-> [url |-> << >>, badgeText |-> "unset", badgeColor |-> "unset",
                title |-> << "unset" >>]]

\* the popup before it is opened
NoPopup ==
    [environmentName |-> "unset", environmentCard |-> "unset",
     wpVersion |-> << "unset" >>, wpLanguage |-> << "unset" >>,
     currentTheme |-> << "unset" >>,
     loads |-> 0, infoRequests |-> 0]

\* a document without scripts, stylesheets, theme classes or language
\* attributes (null stands for an attribute that is not there)
NoMarkup ==
    [scripts |-> << >>, className |-> << >>,
     stylesheets |-> << >>, lang |-> JsNull, xmlLang |-> JsNull]

\* no getWordPressInfo request answered yet
NoInfo ==
    [answered |-> 0, via |-> "unset",
     response |-> [version |-> << >>, language |-> << >>, theme |-> << >>]]

\* the extension before any of its handlers ran, the tab showing url
InitExtensionWith(url, markups, awaited) ==
    /\ tab = NoTab(url)
    /\ bgResult = Unset
    /\ popupUi = NoPopup
    /\ markup \in markups
    /\ info = NoInfo
    /\ toTab = << >>
    /\ reply = NoReply(awaited)
    /\ bgLog = {}

InitExtensionOn(url, markups) == InitExtensionWith(url, markups, FALSE)

InitExtension(url) == InitExtensionOn(url, {NoMarkup})

InitWith(hosts, docs, readyStates) ==
    /\ InitPage(hosts, docs, readyStates)
    /\ InitExtension(<< >>)

Init == InitWith(HostSample, InitialDocs, {"loading", "complete"})

Next ==
    \/ \E i \in Instances : InjectContentScript(i)
    \/ DOMContentLoaded
    \/ \E i \in Instances : TimerFires(i)
    \/ OnRefreshMessage
    \/ \E u \in Urls : PushState(u)
    \/ \E id \in PageRemovals : PageRemoves(id)
    \/ \E a \in PageAppends : PageAppends_(a)
    \/ \E c \in PageClasses : PageTogglesClass(c)

\* the document and its content scripts; the messages they send stay in
\* flight (SpecMessages delivers them)
Spec == Init /\ [][Next]_vars

(***************************************************************************)
(* Specification of the messages: a WordPress admin screen, its content    *)
(* scripts, the clicks on the badge and the relay                          *)
(***************************************************************************)

InitMessages == InitWith(HostKinds, {d_admin}, {"complete"})

NextMessages ==
    \/ \E i \in Instances : InjectContentScript(i)
    \/ \E i \in Instances : TimerFires(i)
    \/ OnRefreshMessage
    \/ \E u \in Urls : PushState(u)
    \/ \E id \in PageRemovals : PageRemoves(id)
    \/ BadgeClick
    \/ RelayOnMessage
    \/ ExtensionDelivery

SpecMessages == InitMessages /\ [][NextMessages]_vars

(***************************************************************************)
(* Specification of one content script under fair scheduling: the browser  *)
(* fires DOMContentLoaded of a loading document and every timer that was   *)
(* set; when the page changes its URL or its nodes is up to the page       *)
(***************************************************************************)

InitSettle == InitWith({s_localhost}, {d_admin, d_noSiteName}, {"loading", "complete"})

NextSettle ==
    \/ InjectContentScript(1)
    \/ DOMContentLoaded
    \/ TimerFires(1)
    \/ \E u \in Urls : PushState(u)
    \/ \E id \in PageRemovals : PageRemoves(id)
    \/ \E c \in PageClasses : PageTogglesClass(c)

SpecSettle ==
    /\ InitSettle
    /\ [][NextSettle]_vars
    /\ WF_vars(DOMContentLoaded)
    /\ WF_vars(TimerFires(1))

(***************************************************************************)
(* Specification of the site detection: documents that carry every         *)
(* combination of the four signals, read by the pass of one content script *)
(***************************************************************************)

SiteDocs ==
    { [bodyClasses |-> classes, generator |-> generator,
       kids |-> [NoKids EXCEPT !["body"] = bar \o element]] :
         classes \in {{}, {"wp-admin"}, {"admin-bar"}, {"home"}},
         generator \in {<< >>, << s_generatorWordPress >>, << s_generatorOther >>,
                        << s_generatorOther, s_generatorWordPress >>},
         bar \in {<< >>, << e_wpadminbar >>},
         element \in {<< >>, << e_wpbody >>, << Element("wpcontent", {}) >>,
                      << Element("wpfooter", {}) >>} }

InitSite == InitWith({s_localhost}, SiteDocs, {"complete"})

NextSite ==
    \/ InjectContentScript(1)
    \/ \E c \in PageClasses : PageTogglesClass(c)
    \/ \E id \in PageRemovals : PageRemoves(id)

SpecSite == InitSite /\ [][NextSite]_vars

(***************************************************************************)
(* Specification of the background relay: the content scripts of one       *)
(* document, the badge link and a sender of other tags put messages in     *)
(* front of the listener of the background script                          *)
(***************************************************************************)

InitBackground == InitWith({s_localhost, h_wwwExample}, {d_admin}, {"complete"})

NextBackground ==
    \/ \E i \in Instances : InjectContentScript(i)
    \/ OnRefreshMessage
    \/ BadgeClick
    \/ \E tag \in ForeignTags : ForeignMessage(tag)
    \/ RelayOnMessage
    \/ ExtensionDelivery

SpecBackground == InitBackground /\ [][NextBackground]_vars

\* the browser delivers every message sent to the background script: its
\* listener runs for the message at the head of the queue
SpecBackgroundFair ==
    /\ InitBackground
    /\ [][NextBackground]_vars
    /\ WF_vars(RelayOnMessage)

(***************************************************************************)
(* Specification of the classifier as a function of the hostname           *)
(***************************************************************************)

\* the content script classifies the hostname
ClassifyInContent ==
    /\ cResult = Unset
    /\ cResult' = detectEnvironmentType(host)
    /\ UNCHANGED << host, pResult, systemVars >>

\* the popup classifies the hostname
ClassifyInPopup ==
    /\ pResult = Unset
    /\ pResult' = popup_detectEnvironmentType(host)
    /\ UNCHANGED << host, cResult, systemVars >>

InitClassify == InitWith(Hostnames, {d_visitor}, {"complete"})

NextClassify == ClassifyInContent \/ ClassifyInPopup

SpecClassify == InitClassify /\ [][NextClassify]_vars

(***************************************************************************)
(* URLs: new URL(url).hostname                                             *)
(*                                                                         *)
(* A URL is a sequence of characters.  The parser finds the scheme before  *)
(* the first colon, and for scheme://authority/... the host of the         *)
(* authority without its port.  The schemes http, https, ftp, ws and wss   *)
(* need a host, and their host is given in lower case.  A string without   *)
(* scheme, or with a host that holds a space, makes new URL throw.         *)
(***************************************************************************)

u_https == << "h", "t", "t", "p", "s" >>
u_http == << "h", "t", "t", "p" >>
u_ftp == << "f", "t", "p" >>
u_chrome == << "c", "h", "r", "o", "m", "e" >>
u_about == << "a", "b", "o", "u", "t" >>
u_slashes == << "/", "/" >>
u_port == << ":", "8", "0", "8", "0" >>

SpecialSchemes ==
    {u_https, u_http, u_ftp, << "w", "s" >>, << "w", "s", "s" >>}

\* the position of the first c in s at or after position from, or 0
IndexOf(s, c, from) ==
    LET at == {i \in from..Len(s) : s[i] = c}
    IN  IF at = {} THEN 0 ELSE CHOOSE i \in at : \A j \in at : i <= j

IsSchemeChar(c) ==
    \/ \E i \in 1..Len(LowerChars) : LowerChars[i] = c \/ UpperChars[i] = c
    \/ c \in {"0", "1", "2", "3", "4", "5", "6", "7", "8", "9", "+", "-", "."}

\* a parser that takes a string without scheme for a host
URLParse_schemeless(url) == [ok |-> TRUE, scheme |-> u_https, hostname |-> toLowerCase(url)]

\* the number of slashes s begins with
RECURSIVE LeadingSlashes(_)
LeadingSlashes(s) ==
    IF s # << >> /\ Head(s) = "/" THEN 1 + LeadingSlashes(Tail(s)) ELSE 0

\* the outcome of new URL(url): ok is FALSE when the constructor throws.
\* After a special scheme any number of slashes precedes the authority;
\* after another scheme only // introduces one, and the host stays as written.
URLParse(url) ==
    LET colon == IndexOf(url, ":", 1)
        scheme == toLowerCase(SubSeq(url, 1, colon - 1))
        rest == SubSeq(url, colon + 1, Len(url))
        special == scheme \in SpecialSchemes
        skip == IF special THEN LeadingSlashes(rest)
                ELSE IF startsWith(rest, u_slashes) THEN 2 ELSE 0
        slash == IndexOf(rest, "/", skip + 1)
        authority == SubSeq(rest, skip + 1, IF slash = 0 THEN Len(rest) ELSE slash - 1)
        portAt == IndexOf(authority, ":", 1)
        hostPart == IF portAt = 0 THEN authority ELSE SubSeq(authority, 1, portAt - 1)
        failed == [ok |-> FALSE, scheme |-> << >>, hostname |-> << >>]
    IN  IF \/ colon <= 1
           \/ url[1] \in {"0", "1", "2", "3", "4", "5", "6", "7", "8", "9", "+", "-", "."}
           \/ \E i \in 1..(colon - 1) : ~IsSchemeChar(url[i])
        THEN failed
        ELSE IF ~special /\ skip = 0
        THEN [ok |-> TRUE, scheme |-> scheme, hostname |-> << >>]
        ELSE IF \E i \in 1..Len(hostPart) : hostPart[i] = " "
        THEN failed
        ELSE IF special
        THEN IF hostPart = << >>
             THEN failed
             ELSE [ok |-> TRUE, scheme |-> scheme, hostname |-> toLowerCase(hostPart)]
        ELSE [ok |-> TRUE, scheme |-> scheme, hostname |-> hostPart]

\* window.location.hostname of the document the tab shows
LocationHostname(url) == IF URLParse(url).ok THEN URLParse(url).hostname ELSE << >>

(***************************************************************************)
(* Background script: the classifier of tab URLs and the toolbar badge     *)
(***************************************************************************)

bg_ENVIRONMENT_COLORS == [development |-> "#28a745", staging |-> "#e60076"]

\* developmentPatterns: each group is a list of patterns and a matcher
bg_developmentPatterns ==
    << [patterns |-> << s_localhost, s_127 >>, matcher |-> "equalOrStartsWith"],
       [patterns |-> << s_dev, s_test, s_local >>, matcher |-> "endsWith"] >>

\* stagingPatterns: the patterns are strings, the matcher calls pattern.test
bg_stagingPatterns ==
    << [patterns |-> << p_staging, p_stage, p_preview, p_demo, p_test >>,
        matcher |-> "test"] >>

\* pattern.test(host) for a pattern that is a String: a String has no method
\* test, the call throws a TypeError
bg_patternTest(pattern, h) == "TypeError"

\* matcher(host, pattern): "true", "false" or "TypeError" when it throws
bg_matcher(kind, h, pattern) ==
    CASE kind = "equalOrStartsWith" ->
            IF h = pattern \/ startsWith(h, pattern) THEN "true" ELSE "false"
      [] kind = "endsWith" ->
            IF endsWith(h, pattern) THEN "true" ELSE "false"
      [] kind = "test" -> bg_patternTest(pattern, h)

\* patterns.some((pattern) => matcher(hostname, pattern)): the patterns are
\* tried in order up to the first that matches or throws
bg_some(group, h) ==
    LET decisive == {i \in 1..Len(group.patterns) :
                        bg_matcher(group.matcher, h, group.patterns[i]) # "false"}
    IN  IF decisive = {} THEN "false"
        ELSE bg_matcher(group.matcher, h,
                        group.patterns[CHOOSE i \in decisive : \A j \in decisive : i <= j])

\* the body of the try block for a parsed hostname; "TypeError" when it throws
bg_detectFromHostname(hostname) ==
    LET dev == {i \in 1..Len(bg_developmentPatterns) :
                   bg_some(bg_developmentPatterns[i], hostname) # "false"}
        firstDev == CHOOSE i \in dev : \A j \in dev : i <= j
        stg == {i \in 1..Len(bg_stagingPatterns) :
                   bg_some(bg_stagingPatterns[i], hostname) # "false"}
        firstStg == CHOOSE i \in stg : \A j \in stg : i <= j
    IN  IF dev # {}
        THEN IF bg_some(bg_developmentPatterns[firstDev], hostname) = "TypeError"
             THEN Thrown
             ELSE [type |-> "development", name |-> "Development",
                   color |-> IF \E k \in 1..Len(bg_developmentPatterns[firstDev].patterns) :
                                   bg_developmentPatterns[firstDev].patterns[k] = s_dev
                             THEN "#4f39f6"
                             ELSE bg_ENVIRONMENT_COLORS.development,
                   icon |-> ""]
        ELSE IF stg # {}
        THEN IF bg_some(bg_stagingPatterns[firstStg], hostname) = "TypeError"
             THEN Thrown
             ELSE [type |-> "staging", name |-> "Staging",
                   color |-> bg_ENVIRONMENT_COLORS.staging, icon |-> ""]
        ELSE Null

\* try { ... } catch (error) { return null }
detectEnvironmentFromUrl(url) ==
    IF ~URLParse(url).ok
    THEN Null
    ELSE IF bg_detectFromHostname(toLowerCase(URLParse(url).hostname)) = Thrown
    THEN Null
    ELSE bg_detectFromHostname(toLowerCase(URLParse(url).hostname))

\* a relay that leaves the text of the badge when the verdict is absent
updateExtensionBadge_keepsText(t, url) ==
    LET environment == detectEnvironmentFromUrl(url)
    IN  IF environment # Null
        THEN [t EXCEPT !.badgeText = "env",
                       !.badgeColor = environment.color,
                       !.title = << "WordPress Environment Indicator - ",
                                    environment.name, " detected" >>]
        ELSE [t EXCEPT !.title = << "WordPress Environment Indicator" >>]

\* the toolbar of the tab after updateExtensionBadge(tabId, url)
updateExtensionBadge(t, url) ==
    LET environment == detectEnvironmentFromUrl(url)
    IN  IF environment # Null
        THEN [t EXCEPT !.badgeText = "env",
                       !.badgeColor = environment.color,
                       !.title = << "WordPress Environment Indicator - ",
                                    environment.name, " detected" >>]
        ELSE [t EXCEPT !.badgeText = "",
                       !.title = << "WordPress Environment Indicator" >>]

\* chrome.tabs.onUpdated listener, changeInfo.status 'complete': the toolbar
\* is updated from the URL of the tab and the content script is requested
TabsOnUpdated ==
    /\ tab.url # << >>
    /\ tab.executeScriptCalls < MaxInstances
    /\ tab' = [updateExtensionBadge(tab, tab.url) EXCEPT !.executeScriptCalls = @ + 1]
    /\ bgResult' = detectEnvironmentFromUrl(tab.url)
    /\ UNCHANGED << host, cResult, pResult, href, readyState, doc, inst, store, clock,
                    toBg, toExt, popupOpens, pageOps, popupUi, markup, info, toTab, reply,
                    bgLog >>

\* chrome.tabs.onActivated listener
TabsOnActivated ==
    /\ tab.url # << >>
    /\ tab' = updateExtensionBadge(tab, tab.url)
    /\ bgResult' = detectEnvironmentFromUrl(tab.url)
    /\ UNCHANGED << host, cResult, pResult, href, readyState, doc, inst, store, clock,
                    toBg, toExt, popupOpens, pageOps, popupUi, markup, info, toTab, reply,
                    bgLog >>

(***************************************************************************)
(* Popup: the environment card                                             *)
(***************************************************************************)

\* a no-data state that leaves the three information fields as they are
showNoDataState_keepsInfo(ui) ==
    [ui EXCEPT !.environmentCard = "environment__card",
               !.environmentName = "Aucune donnee"]

\* (the label is 'Aucune donn\'ee' with an acute accent in the source)
showNoDataState(ui) ==
    [ui EXCEPT !.environmentCard = "environment__card",
               !.environmentName = "Aucune donnee",
               !.wpVersion = s_dash,
               !.wpLanguage = s_dash,
               !.currentTheme = s_dash]

\* updateEnvironmentDisplay with currentEnvironment set: the card shows the
\* environment and detectWordPressInfo() asks the tab for its information
updateEnvironmentDisplay(ui, currentEnvironment) ==
    [ui EXCEPT !.environmentCard = IF currentEnvironment.type = "development"
                                   THEN "environment__card environment__card--development"
                                   ELSE "environment__card environment__card--staging",
               !.environmentName = currentEnvironment.name,
               !.infoRequests = @ + 1]

updateEnvironmentUI(ui, environment) ==
    IF environment # Null
    THEN updateEnvironmentDisplay(ui, environment)
    ELSE showNoDataState(ui)

\* a popup that shows the environment the store holds
detectEnvironmentInPopup_fromStore(ui, url) ==
    updateEnvironmentUI(ui, IF store.currentEnvironment = Unset
                            THEN Null ELSE store.currentEnvironment)

\* try { detectEnvironmentType(new URL(url).hostname) ... } catch { showNoDataState() }
detectEnvironmentInPopup(ui, url) ==
    IF ~URLParse(url).ok
    THEN showNoDataState(ui)
    ELSE updateEnvironmentUI(ui, popup_detectEnvironmentType(URLParse(url).hostname))

\* a popup that asks the content script for a reconcile pass
detectWordPressInfo_request_refresh == [action |-> "refresh"]

\* the message detectWordPressInfo sends to the tab (chrome.tabs.sendMessage)
detectWordPressInfo_request == [action |-> "getWordPressInfo"]

\* loadEnvironmentData with the callback of its chrome.tabs.query
loadEnvironmentData ==
    /\ popupUi.loads < MaxLoads
    /\ popupUi' = [(IF tab.url # << >>
                    THEN detectEnvironmentInPopup(popupUi, tab.url)
                    ELSE showNoDataState(popupUi)) EXCEPT !.loads = @ + 1]
    /\ pResult' = IF tab.url # << >> /\ URLParse(tab.url).ok
                  THEN popup_detectEnvironmentType(URLParse(tab.url).hostname)
                  ELSE pResult
    /\ toTab' = IF popupUi'.infoRequests > popupUi.infoRequests
                THEN Append(toTab, detectWordPressInfo_request)
                ELSE toTab
    /\ UNCHANGED << host, cResult, href, readyState, doc, inst, store, clock,
                    toBg, popupOpens, pageOps, tab, bgResult, markup, info, reply,
                    bgLog >>

\* the popup is opened: init() calls loadEnvironmentData
LoadEnvironmentData ==
    /\ loadEnvironmentData
    /\ UNCHANGED toExt

\* a popup that displays the environment the message carries
PopupOnMessage_showPayload ==
    /\ popupUi.loads > 0
    /\ popupUi.loads < MaxLoads
    /\ toExt # << >>
    /\ Head(toExt).action = "environmentUpdated"
    /\ toExt' = Tail(toExt)
    /\ popupUi' = [updateEnvironmentUI(popupUi, Head(toExt).data) EXCEPT !.loads = @ + 1]
    /\ toTab' = IF popupUi'.infoRequests > popupUi.infoRequests
                THEN Append(toTab, detectWordPressInfo_request)
                ELSE toTab
    /\ UNCHANGED << host, cResult, pResult, href, readyState, doc, inst, store, clock,
                    toBg, popupOpens, pageOps, tab, bgResult, markup, info, reply,
                    bgLog >>

\* chrome.runtime.onMessage listener of the open popup: a re-broadcast
\* environmentUpdated message makes it call loadEnvironmentData (the copy of
\* the message that reaches the popup straight from the content script is
\* handled by the same listener in the same way)
PopupOnMessage ==
    /\ popupUi.loads > 0
    /\ toExt # << >>
    /\ Head(toExt).action = "environmentUpdated"
    /\ toExt' = Tail(toExt)
    /\ loadEnvironmentData

(***************************************************************************)
(* Specification of the tab: its URL, the toolbar the background draws,    *)
(* the popup's card and the content script's verdict for the same URL      *)
(***************************************************************************)

h_myappStaging ==
    << "m", "y", "a", "p", "p", "." >> \o h_stagingExample

h_127001 == s_127 \o << "0", ".", "0", ".", "1" >>

h_localhostExample ==
    s_localhost \o << ".", "e", "x", "a", "m", "p", "l", "e", ".", "c", "o", "m" >>

h_shopTest == << "s", "h", "o", "p" >> \o s_test

h_STAGING == << "S", "T", "A", "G", "I", "N", "G", ".", "e", "x", "a", "m", "p", "l", "e", ".", "c", "o", "m" >>

h_extensions == << "e", "x", "t", "e", "n", "s", "i", "o", "n", "s" >>

\* the hosts written in the URLs of the tab
UrlHosts ==
    { s_localhost, h_127001, h_localhostExample, h_shopTest, h_myappStaging,
      h_stagingExample, h_STAGING, h_wwwExample, h_extensions }

UrlOf(scheme, h, port) == scheme \o << ":" >> \o u_slashes \o h \o port \o << "/" >>

\* URLs new URL parses
ParsableUrls ==
    { UrlOf(sch, h, port) : sch \in {u_https, u_http, u_ftp, u_chrome},
                            h \in UrlHosts, port \in {<< >>, u_port} }
    \cup { u_about \o << ":", "b", "l", "a", "n", "k" >> }

\* strings new URL throws on: no scheme, no host, a space in the host, and
\* host:port without scheme where the host starts with a digit
MalformedUrls ==
    { s_localhost,
      h_wwwExample \o << "/" >>,
      u_http \o << ":" >> \o u_slashes,
      u_https \o << ":" >> \o u_slashes \o << "m", "y", " " >> \o h_stagingExample \o << "/" >>,
      h_127001 \o u_port }

TabUrls == ParsableUrls \cup MalformedUrls \cup { << >> }

InitRelay ==
    \E u \in TabUrls :
       /\ InitPage({LocationHostname(u)}, {d_admin}, {"complete"})
       /\ InitExtension(u)

NextRelay ==
    \/ TabsOnUpdated
    \/ TabsOnActivated
    \/ LoadEnvironmentData
    \/ ClassifyInContent

SpecRelay == InitRelay /\ [][NextRelay]_vars

(***************************************************************************)
(* Specification of the toolbar of two tabs: the events of the second tab  *)
(* reach the same listeners with its tabId                                 *)
(***************************************************************************)

OtherTabUrls ==
    { UrlOf(u_https, s_localhost, << >>), UrlOf(u_https, h_wwwExample, << >>),
      UrlOf(u_https, h_stagingExample, << >>) }

\* chrome.tabs.onUpdated for the second tab, which completed loading url
OtherTabOnUpdated(url) ==
    /\ tab' = [tab EXCEPT !.other = updateExtensionBadge([@ EXCEPT !.url = url], url)]
    /\ UNCHANGED << host, cResult, pResult, href, readyState, doc, inst, store, clock,
                    toBg, toExt, popupOpens, pageOps, bgResult, popupUi, markup, info,
                    toTab, reply, bgLog >>

\* chrome.tabs.onActivated for the second tab: nothing is done without a URL
OtherTabOnActivated ==
    /\ tab.other.url # << >>
    /\ tab' = [tab EXCEPT !.other = updateExtensionBadge(@, @.url)]
    /\ UNCHANGED << host, cResult, pResult, href, readyState, doc, inst, store, clock,
                    toBg, toExt, popupOpens, pageOps, bgResult, popupUi, markup, info,
                    toTab, reply, bgLog >>

NextToolbar ==
    \/ TabsOnUpdated
    \/ TabsOnActivated
    \/ \E url \in OtherTabUrls : OtherTabOnUpdated(url)
    \/ OtherTabOnActivated

SpecToolbar == InitRelay /\ [][NextToolbar]_vars

(***************************************************************************)
(* Specification of a tab that navigates: the documents follow one another *)
(* in the tab, each with its own content scripts; chrome.storage.local and *)
(* the messages in flight outlive the documents                            *)
(***************************************************************************)

\* the tab loads the document d of host h: the scripts, observers and timers
\* of the document it leaves are gone
NavigateTo(h, d, m) ==
    /\ tab.navigations < MaxNavigations
    /\ host' = h
    /\ doc' = d
    /\ href' = "/wp-admin/"
    /\ readyState' = "complete"
    /\ inst' = [i \in Instances |-> NotInjected]
    /\ tab' = [tab EXCEPT !.url = UrlOf(u_https, h, << >>), !.navigations = @ + 1]
    /\ markup' = m
    /\ UNCHANGED << cResult, pResult, store, clock, toBg, toExt, popupOpens, pageOps,
                    bgResult, popupUi, info, toTab, reply, bgLog >>

\* a navigation to a document without scripts, stylesheets, theme classes or
\* language attributes
Navigate(h, d) == NavigateTo(h, d, NoMarkup)

NavigationDocs == {d_admin, d_visitor}

InitNavigation ==
    \E h \in HostKinds :
       /\ InitPage({h}, NavigationDocs, {"complete"})
       /\ InitExtension(UrlOf(u_https, h, << >>))

NextNavigation ==
    \/ \E i \in Instances : InjectContentScript(i)
    \/ \E i \in Instances : TimerFires(i)
    \/ OnRefreshMessage
    \/ \E u \in Urls : PushState(u)
    \/ \E h \in HostKinds, d \in NavigationDocs : Navigate(h, d)

SpecNavigation == InitNavigation /\ [][NextNavigation]_vars

(***************************************************************************)
(* Specification of the store: the passes of the tab's documents, the      *)
(* passes of the content script of a second tab and the install/update     *)
(* handler of the background all write chrome.storage.local                *)
(***************************************************************************)

\* chrome.runtime.onInstalled: chrome.storage.local.set({version, installedAt})
\* sets these two keys and leaves the other keys of the store
OnInstalled ==
    /\ store' = [store EXCEPT !.version = "0.1", !.installedAt = clock]
    /\ UNCHANGED << host, cResult, pResult, href, readyState, doc, inst, clock, toBg,
                    toExt, popupOpens, pageOps >>
    /\ UNCHANGED extVars

\* the hostnames of the second tab: WordPress sites with a verdict
OtherTabHosts == {s_localhost, h_stagingExample}

\* a pass of the content script of a second tab, whose document of hostname
\* h is a WordPress site: the pass ends with the store write and the
\* notification (its badge is in the document of that tab)
OtherTabPass(h) ==
    /\ clock < MaxPasses
    /\ Len(toBg) < MaxPasses
    /\ \E environment \in {detectEnvironmentType(h)} :
        /\ environment # Null
        /\ store' = [store EXCEPT !.currentEnvironment = environment,
                                  !.currentUrl = [hostname |-> h, path |-> "/wp-admin/"],
                                  !.detectedAt = clock + 1]
        /\ toBg' = Append(toBg, [action |-> "environmentUpdated", data |-> environment])
    /\ clock' = clock + 1
    /\ UNCHANGED << host, cResult, pResult, href, readyState, doc, inst,
                    toExt, popupOpens, pageOps >>
    /\ UNCHANGED extVars

NextStore ==
    \/ \E i \in Instances : InjectContentScript(i)
    \/ \E i \in Instances : TimerFires(i)
    \/ \E u \in Urls : PushState(u)
    \/ \E h \in HostKinds, d \in NavigationDocs : Navigate(h, d)
    \/ \E h \in OtherTabHosts : OtherTabPass(h)
    \/ OnInstalled

SpecStore == InitNavigation /\ [][NextStore]_vars

(***************************************************************************)
(* The information probe of the content script (getWordPressInfo)          *)
(*                                                                         *)
(* The probe reads the document p = Page(doc, markup):                     *)
(* p.generator        : doc.generator                                      *)
(* markup.scripts     : the src of the script elements, in document order  *)
(* markup.className   : document.body.className, without the tokens of     *)
(*                      doc.bodyClasses (none of them holds "theme-")      *)
(* markup.stylesheets : the href of the link[rel="stylesheet"] elements    *)
(* markup.lang, markup.xmlLang : the attributes of the root element,       *)
(*                      JsNull when the attribute is not there             *)
(***************************************************************************)

Page(d, m) ==
    [generator |-> d.generator, scripts |-> m.scripts, className |-> m.className,
     stylesheets |-> m.stylesheets, lang |-> m.lang, xmlLang |-> m.xmlLang]

DigitChars == {"0", "1", "2", "3", "4", "5", "6", "7", "8", "9"}

\* the character class [\d.]
VersionChars == DigitChars \cup {"."}

\* the character class [a-zA-Z0-9-_]
ThemeChars ==
    {LowerChars[i] : i \in 1..Len(LowerChars)} \cup {UpperChars[i] : i \in 1..Len(UpperChars)}
        \cup DigitChars \cup {"-", "_"}

\* the character class \s (the white space an attribute value can hold)
SpaceChars == {" ", "\t", "\n", "\r", "\f"}

\* the number of characters of class that s holds in a row from position i on
RECURSIVE RunLength(_, _, _)
RunLength(s, i, class) ==
    IF i > Len(s) \/ s[i] \notin class THEN 0 ELSE 1 + RunLength(s, i + 1, class)

\* p is in s at position i
IsAt(s, p, i) == i + Len(p) - 1 <= Len(s) /\ SubSeq(s, i, i + Len(p) - 1) = p

\* /WordPress\s+([\d.]+)/ tried at position i
versionGeneratorAt(s, i) ==
    IF ~IsAt(s, s_WordPress, i) THEN JsNull
    ELSE LET j == i + Len(s_WordPress)
             w == RunLength(s, j, SpaceChars)
             v == RunLength(s, j + w, VersionChars)
         IN  IF w >= 1 /\ v >= 1 THEN SubSeq(s, j + w, j + w + v - 1) ELSE JsNull

s_wpIncludes == << "w", "p", "-", "i", "n", "c", "l", "u", "d", "e", "s" >>
s_wpIncludesJsWp == s_wpIncludes \o << "/", "j", "s", "/", "w", "p", "-" >>
s_minJs == << ".", "m", "i", "n", ".", "j", "s" >>

\* /wp-includes\/js\/wp-([\d.]+)\.min\.js/ tried at position i: the capture is
\* the longest run of [\d.] that .min.js follows
versionScriptAt(s, i) ==
    IF ~IsAt(s, s_wpIncludesJsWp, i) THEN JsNull
    ELSE LET j == i + Len(s_wpIncludesJsWp)
             ends == {k \in 1..RunLength(s, j, VersionChars) : IsAt(s, s_minJs, j + k)}
         IN  IF ends = {} THEN JsNull
             ELSE SubSeq(s, j, j + (CHOOSE k \in ends : \A l \in ends : l <= k) - 1)

s_themeDash == << "t", "h", "e", "m", "e", "-" >>
s_themes == << "t", "h", "e", "m", "e", "s" >>

\* /theme-([a-zA-Z0-9-_]+)/ tried at position i
themeBodyClassAt(s, i) ==
    IF ~IsAt(s, s_themeDash, i) THEN JsNull
    ELSE LET j == i + Len(s_themeDash)
             n == RunLength(s, j, ThemeChars)
         IN  IF n >= 1 THEN SubSeq(s, j, j + n - 1) ELSE JsNull

\* /themes\/([^\/]+)/ tried at position i
themeStylesheetAt(s, i) ==
    IF ~IsAt(s, s_themes \o << "/" >>, i) THEN JsNull
    ELSE LET j == i + Len(s_themes) + 1
             slash == IndexOf(s, "/", j)
             last == IF slash = 0 THEN Len(s) ELSE slash - 1
         IN  IF last >= j THEN SubSeq(s, j, last) ELSE JsNull

\* the pattern re of CONFIG.wordpress.info.patterns tried at position i
captureAt(re, s, i) ==
    CASE re = "versionGenerator" -> versionGeneratorAt(s, i)
      [] re = "versionScript" -> versionScriptAt(s, i)
      [] re = "themeBodyClass" -> themeBodyClassAt(s, i)
      [] re = "themeStylesheet" -> themeStylesheetAt(s, i)

\* the capture of the first position from i on where the pattern matches
RECURSIVE matchFrom(_, _, _)
matchFrom(re, s, i) ==
    IF i > Len(s) THEN JsNull
    ELSE IF captureAt(re, s, i) # JsNull THEN captureAt(re, s, i)
    ELSE matchFrom(re, s, i + 1)

\* s.match(re)[1] for a pattern without the g flag, or null
match(s, re) == matchFrom(re, s, 1)

\* document.querySelectorAll('script[src*="wp-includes"]')
wpIncludesScripts(m) == SelectSeq(m.scripts, LAMBDA src : includes(src, s_wpIncludes))

\* document.querySelector('link[rel="stylesheet"][href*="themes"]')
themeStylesheet(m) ==
    LET links == SelectSeq(m.stylesheets, LAMBDA h : includes(h, s_themes))
    IN  IF links = << >> THEN JsNull ELSE links[1]

getVersionFromGenerator(m) ==
    IF m.generator # << >> /\ includes(m.generator[1], s_WordPress)
          /\ match(m.generator[1], "versionGenerator") # JsNull
    THEN match(m.generator[1], "versionGenerator")
    ELSE s_dash

\* for (const script of scripts): the first script whose src matches
getVersionFromScripts(m) ==
    LET matching == SelectSeq(wpIncludesScripts(m),
                              LAMBDA src : match(src, "versionScript") # JsNull)
    IN  IF matching # << >> THEN match(matching[1], "versionScript") ELSE s_dash

\* the scripts are asked before the generator
getWordPressVersion_scriptsFirst(m) ==
    IF getVersionFromScripts(m) # s_dash
    THEN getVersionFromScripts(m)
    ELSE getVersionFromGenerator(m)

getWordPressVersion(m) ==
    IF getVersionFromGenerator(m) # s_dash
    THEN getVersionFromGenerator(m)
    ELSE getVersionFromScripts(m)

\* a || b on strings: a unless it is null or empty
OrElse(a, b) == IF a # JsNull /\ a # << >> THEN a ELSE b

\* the lang attribute alone
getWordPressLanguage_langOnly(m) == m.lang

getWordPressLanguage(m) == OrElse(m.lang, OrElse(m.xmlLang, s_dash))

getThemeFromBodyClasses(m) ==
    LET themeMatch == match(m.className, "themeBodyClass")
    IN  IF themeMatch # JsNull THEN themeMatch ELSE s_dash

getThemeFromStylesheets(m) ==
    IF themeStylesheet(m) # JsNull
          /\ match(themeStylesheet(m), "themeStylesheet") # JsNull
    THEN match(themeStylesheet(m), "themeStylesheet")
    ELSE s_dash

\* the stylesheets are asked before the body classes
getWordPressTheme_stylesheetsFirst(m) ==
    IF getThemeFromStylesheets(m) # s_dash
    THEN getThemeFromStylesheets(m)
    ELSE getThemeFromBodyClasses(m)

getWordPressTheme(m) ==
    IF getThemeFromBodyClasses(m) # s_dash
    THEN getThemeFromBodyClasses(m)
    ELSE getThemeFromStylesheets(m)

getWordPressInfo(m) ==
    [version |-> getWordPressVersion(m),
     language |-> getWordPressLanguage(m),
     theme |-> getWordPressTheme(m)]

(***************************************************************************)
(* The original content script: its probe, one function                    *)
(***************************************************************************)

\* let version = '-', language = '-', theme = '-', then the assignments in
\* the order of the function
original_getWordPressInfo(m) ==
    LET generatorMatch ==
            IF m.generator # << >> /\ includes(m.generator[1], s_WordPress)
            THEN match(m.generator[1], "versionGenerator")
            ELSE JsNull
        version1 == IF generatorMatch # JsNull THEN generatorMatch ELSE s_dash
        matching == SelectSeq(wpIncludesScripts(m),
                              LAMBDA src : match(src, "versionScript") # JsNull)
        version == IF version1 = s_dash /\ matching # << >>
                   THEN match(matching[1], "versionScript")
                   ELSE version1
        themeMatch == match(m.className, "themeBodyClass")
        themeLink == themeStylesheet(m)
        linkMatch == IF themeLink # JsNull THEN match(themeLink, "themeStylesheet")
                     ELSE JsNull
    IN  [version |-> version,
         language |-> OrElse(m.lang, OrElse(m.xmlLang, s_dash)),
         theme |-> IF themeMatch # JsNull THEN themeMatch
                   ELSE IF linkMatch # JsNull THEN linkMatch
                   ELSE s_dash]

(***************************************************************************)
(* Popup: the three information fields                                     *)
(***************************************************************************)

updateWordPressInfoElements(ui, wpInfo) ==
    [ui EXCEPT !.wpVersion = OrElse(wpInfo.version, s_dash),
               !.wpLanguage = OrElse(wpInfo.language, s_dash),
               !.currentTheme = OrElse(wpInfo.theme, s_dash)]

setDefaultWordPressInfo(ui) ==
    updateWordPressInfoElements(ui, [version |-> s_dash, language |-> s_dash,
                                     theme |-> s_dash])

detectWordPressVersionFromGenerator(m) == getVersionFromGenerator(m)

detectWordPressVersionFromScripts(m) == getVersionFromScripts(m)

detectWordPressVersion(m) ==
    IF detectWordPressVersionFromGenerator(m) = s_dash
    THEN detectWordPressVersionFromScripts(m)
    ELSE detectWordPressVersionFromGenerator(m)

detectPageLanguage(m) == OrElse(m.lang, OrElse(m.xmlLang, s_dash))

detectThemeFromBodyClasses(m) == match(m.className, "themeBodyClass")

detectThemeFromStylesheets(m) ==
    IF themeStylesheet(m) # JsNull
    THEN match(themeStylesheet(m), "themeStylesheet")
    ELSE JsNull

detectWordPressTheme(m) ==
    OrElse(OrElse(detectThemeFromBodyClasses(m), detectThemeFromStylesheets(m)), s_dash)

\* the record the function handed to executeScript is written to return
detectFromTab(m) ==
    [version |-> detectWordPressVersion(m),
     language |-> detectPageLanguage(m),
     theme |-> detectWordPressTheme(m)]

\* an injection without result (results[0].result is undefined)
NoResult == [version |-> JsNull, language |-> JsNull, theme |-> JsNull]

\* func is serialized and runs in the tab, outside the closure of the popup
\* script that defines detectWordPressVersion, detectPageLanguage and
\* detectWordPressTheme, and the content script defines no global: the first
\* call throws a ReferenceError and the injection has no result
injectedFunc(m) == NoResult

\* the callback of chrome.tabs.sendMessage(tab, {action: 'getWordPressInfo'}):
\* every injected instance listens and answers getWordPressInfo(); without a
\* listener the channel reports lastError and the popup injects its function
OnGetWordPressInfo ==
    /\ info.answered < popupUi.infoRequests
    /\ info.via # "fallback"
    /\ toTab # << >>
    /\ Head(toTab).action = "getWordPressInfo"
    /\ toTab' = Tail(toTab)
    /\ IF tab.url = << >>
       THEN /\ popupUi' = setDefaultWordPressInfo(popupUi)
            /\ info' = [info EXCEPT !.answered = @ + 1, !.via = "default"]
       ELSE IF \E i \in Instances : inst[i].injected
       THEN \E response \in {getWordPressInfo(Page(doc, markup))} :
               /\ popupUi' = updateWordPressInfoElements(popupUi, response)
               /\ info' = [answered |-> info.answered + 1, via |-> "response",
                           response |-> response]
       ELSE /\ info' = [info EXCEPT !.via = "fallback"]
            /\ UNCHANGED popupUi
    /\ UNCHANGED << host, cResult, pResult, href, readyState, doc, inst, store, clock,
                    toBg, toExt, popupOpens, pageOps, tab, bgResult, markup, reply,
                    bgLog >>

\* the callback of chrome.scripting.executeScript in detectWordPressInfoFromTab:
\* the browser either refuses the injection (no results) or runs the function
ExecuteScriptCallback ==
    /\ info.via = "fallback"
    /\ \E ran \in BOOLEAN :
          \E result \in {IF ran THEN injectedFunc(Page(doc, markup)) ELSE NoResult} :
             /\ popupUi' = IF ran /\ result # NoResult
                           THEN updateWordPressInfoElements(popupUi, result)
                           ELSE updateWordPressInfoElements(
                                    popupUi, [version |-> s_dash, language |-> s_dash,
                                              theme |-> s_dash])
             /\ info' = [answered |-> info.answered + 1,
                         via |-> IF ran THEN "injected" ELSE "injectionFailed",
                         response |-> result]
    /\ UNCHANGED << host, cResult, pResult, href, readyState, doc, inst, store, clock,
                    toBg, toExt, popupOpens, pageOps, tab, bgResult, markup, toTab, reply,
                    bgLog >>

(***************************************************************************)
(* Specification of the information exchange: a development site whose    *)
(* markup is drawn from MarkupSamples, the popup opened with or without a  *)
(* content script in the tab                                               *)
(***************************************************************************)

m_generatorNoVersion ==
    << "W", "o", "r", "d", "P", "r", "e", "s", "s" >>

m_jquerySrc ==
    << "h", "t", "t", "p", "s", ":", "/", "/", "l", "o", "c", "a", "l", "h", "o", "s",
       "t", "/", "w", "p", "-", "i", "n", "c", "l", "u", "d", "e", "s", "/", "j", "s",
       "/", "j", "q", "u", "e", "r", "y", ".", "j", "s" >>

m_wpSrc ==
    << "h", "t", "t", "p", "s", ":", "/", "/", "l", "o", "c", "a", "l", "h", "o", "s",
       "t", "/", "w", "p", "-", "i", "n", "c", "l", "u", "d", "e", "s", "/", "j", "s",
       "/", "w", "p", "-", "5", ".", "9", ".", "m", "i", "n", ".", "j", "s" >>

m_embedSrc ==
    << "h", "t", "t", "p", "s", ":", "/", "/", "l", "o", "c", "a", "l", "h", "o", "s",
       "t", "/", "w", "p", "-", "i", "n", "c", "l", "u", "d", "e", "s", "/", "j", "s",
       "/", "w", "p", "-", "e", "m", "b", "e", "d", ".", "m", "i", "n", ".", "j", "s" >>

m_classAstra ==
    << "h", "o", "m", "e", " ", "t", "h", "e", "m", "e", "-", "a", "s", "t", "r", "a" >>

m_classDash ==
    << "t", "h", "e", "m", "e", "-", "-" >>

m_styleTwenty ==
    << "h", "t", "t", "p", "s", ":", "/", "/", "l", "o", "c", "a", "l", "h", "o", "s",
       "t", "/", "w", "p", "-", "c", "o", "n", "t", "e", "n", "t", "/", "t", "h", "e",
       "m", "e", "s", "/", "t", "w", "e", "n", "t", "y", "t", "w", "e", "n", "t", "y",
       "/", "s", "t", "y", "l", "e", ".", "c", "s", "s" >>

m_styleOther ==
    << "h", "t", "t", "p", "s", ":", "/", "/", "l", "o", "c", "a", "l", "h", "o", "s",
       "t", "/", "c", "s", "s", "/", "t", "h", "e", "m", "e", "s", ".", "c", "s", "s" >>

m_lang == << "f", "r" >>
m_xmlLang == << "e", "n" >>

MarkupSamples ==
    [scripts : {<< >>, << m_jquerySrc, m_wpSrc >>, << m_embedSrc >>},
     className : {<< >>, m_classAstra, m_classDash},
     stylesheets : {<< >>, << m_styleTwenty >>, << m_styleOther, m_styleTwenty >>},
     lang : {JsNull, << >>, m_lang},
     xmlLang : {JsNull, m_xmlLang}]

\* documents without admin bar that differ by their generator
ProbeDocs ==
    {[d_visitor EXCEPT !.generator = g] :
        g \in {<< >>, << s_generatorWordPress >>, << m_generatorNoVersion >>,
               << s_generatorOther >>}}

InitProbe ==
    /\ InitPage({s_localhost}, ProbeDocs, {"complete"})
    /\ InitExtensionOn(UrlOf(u_https, s_localhost, << >>), MarkupSamples)

NextProbe ==
    \/ LoadEnvironmentData
    \/ \E i \in Instances : InjectContentScript(i)
    \/ OnGetWordPressInfo
    \/ ExecuteScriptCallback

SpecProbe == InitProbe /\ [][NextProbe]_vars

(***************************************************************************)
(* Specification of the open popup: the tab, its content scripts, the      *)
(* relay, the popup's listener and its information exchange                *)
(***************************************************************************)

\* the markup of the page the popup is opened on
m_astraFr ==
    [scripts |-> << >>, className |-> m_classAstra, stylesheets |-> << >>,
     lang |-> m_lang, xmlLang |-> JsNull]

PopupHosts == {s_localhost, h_wwwExample}

InitPopup ==
    \E h \in PopupHosts :
       /\ InitPage({h}, {d_admin}, {"complete"})
       /\ InitExtensionWith(UrlOf(u_https, h, << >>), {m_astraFr}, TRUE)

NextPopup ==
    \/ LoadEnvironmentData
    \/ PopupOnMessage
    \/ OnGetWordPressInfo
    \/ ExecuteScriptCallback
    \/ \E i \in Instances : InjectContentScript(i)
    \/ OnRefreshMessage
    \/ RelayOnMessage
    \/ ExtensionDelivery
    \/ \E h \in PopupHosts : Navigate(h, d_admin)

SpecPopup == InitPopup /\ [][NextPopup]_vars

(***************************************************************************)
(* Specification of the popup over a tab that leaves a development site    *)
(* for a WordPress site without verdict whose markup tells version,        *)
(* language and theme                                                      *)
(***************************************************************************)

InitLate ==
    /\ InitPage({s_localhost}, {d_admin}, {"complete"})
    /\ InitExtensionWith(UrlOf(u_https, s_localhost, << >>), {m_astraFr}, FALSE)

NextLate ==
    \/ LoadEnvironmentData
    \/ PopupOnMessage
    \/ OnGetWordPressInfo
    \/ ExecuteScriptCallback
    \/ \E i \in Instances : InjectContentScript(i)
    \/ RelayOnMessage
    \/ ExtensionDelivery
    \/ NavigateTo(h_wwwExample, d_noSiteName, m_astraFr)

SpecLate == InitLate /\ [][NextLate]_vars

(***************************************************************************)
(* Properties of the classifier (checked under SpecClassify)               *)
(***************************************************************************)

\* C5: a hostname that ends with .test and is neither localhost nor
\* 127.-prefixed is classified Development by the suffix rule, in the content
\* script and in the popup, and never Staging, although it contains the
\* staging pattern test; the rules are tried in the order local, suffix,
\* staging and the first that matches decides.
C5_TestSuffixIsDevelopment ==
    /\ (endsWith(host, s_test) /\ host # s_localhost /\ ~startsWith(host, s_127)) =>
          /\ cResult # Unset =>
                /\ cResult.type = "development"
                /\ cResult.color = configDevelopment.tldColor
          /\ pResult # Unset => pResult.type = "development"
    /\ cResult # Unset =>
          cResult.type =
             CASE isLocalDevelopment(host) -> "development"
               [] ~isLocalDevelopment(host) /\ isDevelopmentTLD(host) -> "development"
               [] ~isLocalDevelopment(host) /\ ~isDevelopmentTLD(host)
                  /\ isStagingEnvironment(host) -> "staging"
               [] OTHER -> "null"

\* a .test hostname that also matches the staging pattern, classified by both
C5_Witness ==
    /\ endsWith(host, s_test)
    /\ ~isLocalDevelopment(host)
    /\ regexTestI(p_test, host)
    /\ cResult.type = "development"
    /\ pResult.type = "development"

\* C6: the classifier is case-insensitive on its argument: classify(h) equals
\* classify(lowercase(h)) for every hostname h, in the content script and in
\* the popup.
C6_CaseInsensitive ==
    /\ cResult # Unset => cResult = detectEnvironmentType(toLowerCase(host))
    /\ pResult # Unset => pResult = popup_detectEnvironmentType(toLowerCase(host))

\* C7: a hostname that is exactly localhost or begins with 127. is classified
\* Development with the colour of the local variant, #28a745, whatever suffix
\* or staging pattern it also carries; a hostname that only begins with
\* localhost is not given that variant.
C7_LocalRule ==
    cResult # Unset =>
       /\ (host = s_localhost \/ startsWith(host, s_127)) =>
             /\ cResult.type = "development"
             /\ cResult.color = "#28a745"
       /\ (startsWith(host, s_localhost) /\ host # s_localhost) =>
             cResult.color # "#28a745"

\* a 127.-prefixed hostname that also ends with a development suffix and
\* contains a staging pattern, classified
C7_Witness ==
    /\ startsWith(host, s_127)
    /\ endsWith(host, s_test)
    /\ cResult.type = "development"
    /\ cResult.color = "#28a745"

\* a hostname that begins with localhost and is longer, classified
C7_WitnessPrefixOnly ==
    /\ startsWith(host, s_localhost)
    /\ host # s_localhost
    /\ cResult # Unset

C9_StagingRule ==
    (/\ host # s_localhost
     /\ ~startsWith(host, s_127)
     /\ ~(endsWith(host, s_dev) \/ endsWith(host, s_test) \/ endsWith(host, s_local))
     /\ \E p \in {p_staging, p_stage, p_preview, p_demo, p_test} :
           includes(toLowerCase(host), p)) =>
       /\ cResult # Unset => cResult.type = "staging" /\ cResult.name = "Staging"
       /\ pResult # Unset => pResult.type = "staging"

\* STAGING in capitals followed by a domain, classified Staging
C9_Witness ==
    /\ startsWith(host, << "S", "T", "A", "G", "I", "N", "G", "." >>)
    /\ ~includes(host, p_staging)
    /\ cResult.type = "staging"
    /\ pResult.type = "staging"

\* C10: a hostname that matches none of the three rules is classified absent
\* (null); a verdict that is not absent has kind Development or Staging, so
\* production is no third value; the classifier returns for every string and
\* does not throw.
C10_AbsentOtherwise ==
    /\ cResult # Unset =>
          /\ cResult # Thrown
          /\ cResult.type \in {"development", "staging", "null"}
          /\ cResult.type = "null" => cResult = Null
          /\ (~isLocalDevelopment(host) /\ ~isDevelopmentTLD(host)
              /\ ~isStagingEnvironment(host)) => cResult = Null
    /\ pResult # Unset =>
          /\ pResult.type \in {"development", "staging", "null"}
          /\ (~popup_isLocalDevelopment(host) /\ ~popup_isDevelopmentTLD(host)
              /\ ~popup_isStagingEnvironment(host)) => pResult = Null

\* a hostname no rule matches, classified absent by both
C10_Witness ==
    /\ ~isLocalDevelopment(host)
    /\ ~isDevelopmentTLD(host)
    /\ ~isStagingEnvironment(host)
    /\ cResult = Null
    /\ pResult = Null

(***************************************************************************)
(* Properties of the badge reconciler (checked under Spec)                 *)
(***************************************************************************)

\* C1: a document that starts without an element of the reserved id holds at
\* most one BadgeNode in every reachable state, whatever the interleaving of
\* the initial runs, the timers, the refresh messages and the changes of the
\* page, and with several content-script instances in the document.
C1_AtMostOneBadge == BadgeCount(doc) <= 1

\* two instances run in the document, three passes have completed and the
\* badge is there once
C1_Witness ==
    /\ \A i \in Instances : inst[i].injected
    /\ clock >= 3
    /\ BadgeCount(doc) = 1

\* C2 as stated: in every state after the first pass, a BadgeNode exists if
\* and only if the site detection holds for the document and the verdict for
\* its hostname is not absent.
C2_BadgeIffSiteAndVerdict ==
    clock > 0 =>
       (BadgeCount(doc) >= 1 <=> (isWordPressSite(doc) /\ detectEnvironmentType(host) # Null))

\* C2 amended: in the state a task that ran a reconcile pass leaves, a
\* BadgeNode exists if and only if the site detection holds for the document,
\* the verdict for its hostname is not absent and one of the three anchors
\* exists in the document.
C2_BadgeIffSiteVerdictAnchor ==
    [][clock' > clock =>
         (BadgeCount(doc') >= 1 <=>
             /\ isWordPressSite(doc')
             /\ detectEnvironmentType(host') # Null
             /\ \/ querySelector(doc', "#wp-admin-bar-site-name") # NoElement
                \/ querySelector(doc', "#wp-admin-bar-root-default") # NoElement
                \/ querySelector(doc', "#wpadminbar .ab-top-menu") # NoElement)]_vars

\* a pass ran on a WordPress site with a verdict and without anchor, the page
\* did nothing since: no badge
C2_Witness ==
    /\ clock > 0
    /\ pageOps = 0
    /\ isWordPressSite(doc)
    /\ detectEnvironmentType(host) # Null
    /\ findBadgeInjectionPoint(doc) = NoElement
    /\ BadgeCount(doc) = 0
    /\ store.currentEnvironment = detectEnvironmentType(host)

\* C3: two passes in succession on an unchanged document leave the document
\* that one pass leaves, with the badge once, of the same content and at the
\* same position, and never twice: the document a task that runs one or more
\* passes ends with is the one a single pass gives and the one two passes in
\* succession give.
C3_ReconcileIdempotent ==
    [][clock' > clock =>
         \E once \in {injectBadge(World)} :
            \E twice \in {injectBadge(once)} :
               /\ twice.doc = once.doc
               /\ doc' = once.doc
               /\ BadgeCount(doc') <= 1]_vars

\* two passes ran on a document the page did not touch and the badge is there
\* once
C3_Witness ==
    /\ clock >= 2
    /\ pageOps = 0
    /\ BadgeCount(doc) = 1
    /\ getElementById(doc, badgeId).node = createEnvironmentBadge(detectEnvironmentType(host))

\* C4: a task that runs a reconcile pass on a document for which the site
\* detection is false leaves no BadgeNode, whatever the hostname and whether
\* or not the document held a badge.
C4_NoBadgeOffSite ==
    [][(clock' > clock /\ ~isWordPressSite(doc)) => BadgeCount(doc') = 0]_vars

\* the document is no WordPress site and holds an anchor and no badge, and the
\* store holds a verdict: a pass inserted the badge while the site detection
\* held, the page then dropped the class that made it hold, and the pass that
\* followed removed the badge
C4_Witness ==
    /\ ~isWordPressSite(doc)
    /\ findBadgeInjectionPoint(doc) # NoElement
    /\ detectEnvironmentType(host) # Null
    /\ store.currentEnvironment # Unset
    /\ store.detectedAt < clock
    /\ BadgeCount(doc) = 0

(***************************************************************************)
(* Properties of the toolbar badge and of the popup's card (SpecRelay)     *)
(***************************************************************************)

\* C11 as stated: once the background handled the completed navigation of a
\* tab whose URL has a hostname that matches a staging pattern and no
\* development rule, its verdict is Staging, the badge text of the toolbar is
\* not empty and the tooltip contains 'Staging detected'.
C11_StagingToolbar ==
    (/\ bgResult # Unset
     /\ URLParse(tab.url).ok
     /\ URLParse(tab.url).scheme \in {u_http, u_https}
     /\ \E p \in {p_staging, p_stage, p_preview, p_demo, p_test} :
           includes(URLParse(tab.url).hostname, p)
     /\ ~isLocalDevelopment(URLParse(tab.url).hostname)
     /\ ~startsWith(URLParse(tab.url).hostname, s_localhost)
     /\ ~isDevelopmentTLD(URLParse(tab.url).hostname)) =>
       /\ bgResult.type = "staging"
       /\ tab.badgeText \notin {"", "unset"}
       /\ \E i \in 1..(Len(tab.title) - 1) :
             tab.title[i] = "Staging" /\ tab.title[i + 1] = " detected"

\* C12 as stated: for every URL that parses, the verdict of the background's
\* detectEnvironmentFromUrl is the verdict of the content script's
\* detectEnvironmentType on the hostname: both absent, or of the same kind
\* and the same colour.
C12_SameClassifier ==
    (bgResult # Unset /\ URLParse(tab.url).ok) =>
       \E verdict \in {detectEnvironmentType(URLParse(tab.url).hostname)} :
          /\ bgResult.type = verdict.type
          /\ bgResult.color = verdict.color

PassCompletedHere == \E i \in Instances : inst[i].injected /\ ~inst[i].dclPending

\* C14 as stated: after any sequence of passes in one or several documents,
\* the currentEnvironment of the store, when there is one, is the verdict of
\* the pass that completed last, never that of an earlier pass.
C14_StoreIsLastVerdict ==
    (PassCompletedHere /\ store.currentEnvironment # Unset) =>
       store.currentEnvironment = detectEnvironmentType(host)

\* C15 as stated: after a pass on a document whose hostname matches no rule
\* the verdict is absent, the document holds no badge and the store holds no
\* currentEnvironment, whatever an earlier pass stored.
C15_AbsentClearsStore ==
    (/\ PassCompletedHere
     /\ ~isLocalDevelopment(host)
     /\ ~isDevelopmentTLD(host)
     /\ ~isStagingEnvironment(host)) =>
       /\ detectEnvironmentType(host) = Null
       /\ BadgeCount(doc) = 0
       /\ store.currentEnvironment \in {Unset, Null}

(***************************************************************************)
(* Properties of the insertion (Spec)                                      *)
(***************************************************************************)

\* the badge of d stands where the first existing anchor puts it
PlacedAtFirstAnchor(d) ==
    LET badge == getElementById(d, badgeId)
        siteName == getElementById(d, "wp-admin-bar-site-name")
        rootDefault == getElementById(d, "wp-admin-bar-root-default")
        topMenu == querySelector(d, "#wpadminbar .ab-top-menu")
    IN  IF siteName # NoElement
        THEN badge.parent = siteName.parent /\ badge.index = siteName.index + 1
        ELSE IF rootDefault # NoElement
        THEN /\ badge.parent = "wp-admin-bar-root-default"
             /\ badge.index = Len(d.kids["wp-admin-bar-root-default"])
        ELSE /\ topMenu # NoElement
             /\ badge.parent = topMenu.node.id
             /\ badge.index = Len(d.kids[topMenu.node.id])

\* C16: the badge a pass inserts is the next sibling of the site-name element
\* if that exists, otherwise the last child of #wp-admin-bar-root-default if
\* that exists, otherwise the last child of the first '#wpadminbar
\* .ab-top-menu'; a later anchor is not used while an earlier one exists.
C16_FirstAnchorWins ==
    [][(clock' > clock /\ BadgeCount(doc') >= 1) => PlacedAtFirstAnchor(doc')]_vars

\* a pass found neither the site name nor the root container and appended
\* the badge to the top menu of the admin bar
C16_Witness ==
    /\ clock > 0
    /\ BadgeCount(doc) = 1
    /\ getElementById(doc, "wp-admin-bar-site-name") = NoElement
    /\ getElementById(doc, "wp-admin-bar-root-default") = NoElement
    /\ getElementById(doc, badgeId).parent = "wp-admin-bar-top-secondary"

\* a pass put the badge right after the site name, before the entries that
\* follow the site name
C16_WitnessSiteName ==
    /\ clock > 0
    /\ BadgeCount(doc) = 1
    /\ getElementById(doc, badgeId).index = getElementById(doc, "wp-admin-bar-site-name").index + 1
    /\ getElementById(doc, badgeId).index < Len(doc.kids["wp-admin-bar-root-default"])

\* C17: a pass on a document for which the site detection holds, with a
\* verdict that is not absent and none of the three anchors, inserts no badge
\* and completes: the store holds the verdict with the time of the pass and
\* the environmentUpdated notification with the verdict is sent, once per pass.
C17_NoAnchorStillCompletes ==
    [][(/\ clock' > clock
        /\ isWordPressSite(doc)
        /\ detectEnvironmentType(host) # Null
        /\ querySelector(doc, "#wp-admin-bar-site-name") = NoElement
        /\ querySelector(doc, "#wp-admin-bar-root-default") = NoElement
        /\ querySelector(doc, "#wpadminbar .ab-top-menu") = NoElement) =>
          /\ BadgeCount(doc') = 0
          /\ store'.currentEnvironment = detectEnvironmentType(host)
          /\ store'.detectedAt = clock'
          /\ Len(toBg') = Len(toBg) + (clock' - clock)
          /\ toBg'[Len(toBg')] = [action |-> "environmentUpdated",
                                  data |-> detectEnvironmentType(host)]]_vars

\* a pass just completed on a WordPress page without anchor: no badge, the
\* verdict stored at the time of the pass, the notification sent last
C17_Witness ==
    /\ clock > 0
    /\ isWordPressSite(doc)
    /\ detectEnvironmentType(host) # Null
    /\ findBadgeInjectionPoint(doc) = NoElement
    /\ BadgeCount(doc) = 0
    /\ store.detectedAt = clock
    /\ Len(toBg) = clock
    /\ toBg[Len(toBg)].action = "environmentUpdated"

\* C18: when the popup's getWordPressInfo request fails and the function it
\* injects into the tab runs, the three fields show what the detection finds
\* in the page; when the injection is refused, the three fields show '-'.
C18_FallbackPopulates ==
    /\ info.via = "injected" =>
          /\ popupUi.wpVersion = detectFromTab(Page(doc, markup)).version
          /\ popupUi.wpLanguage = detectFromTab(Page(doc, markup)).language
          /\ popupUi.currentTheme = detectFromTab(Page(doc, markup)).theme
    /\ info.via = "injectionFailed" =>
          /\ popupUi.wpVersion = s_dash
          /\ popupUi.wpLanguage = s_dash
          /\ popupUi.currentTheme = s_dash

\* C19: the record of getWordPressInfo has its three fields, none of them
\* null or empty, and its language is the lang attribute of the root element
\* when that has characters, else xml:lang when that has characters, else '-'.
C19_ProbeComplete ==
    \E r \in {getWordPressInfo(Page(doc, markup))} :
       /\ DOMAIN r = {"version", "language", "theme"}
       /\ \A f \in DOMAIN r : r[f] # JsNull /\ r[f] # << >>
       /\ r.language = IF markup.lang \notin {JsNull, << >>} THEN markup.lang
                       ELSE IF markup.xmlLang \notin {JsNull, << >>} THEN markup.xmlLang
                       ELSE s_dash
       /\ info.via = "response" => info.response = r

\* the content script answered for a page without lang attribute: the
\* language of the answer is the xml:lang attribute
C19_Witness ==
    /\ info.via = "response"
    /\ markup.lang = << >>
    /\ markup.xmlLang = m_xmlLang
    /\ info.response.language = m_xmlLang
    /\ doc.generator = << m_generatorNoVersion >>
    /\ info.response.version = s_dash
    /\ info.response.theme = s_dash

s_642 == << "6", ".", "4", ".", "2" >>
s_59 == << "5", ".", "9" >>
s_astra == << "a", "s", "t", "r", "a" >>
s_twentytwenty == << "t", "w", "e", "n", "t", "y", "t", "w", "e", "n", "t", "y" >>

C20_WitnessSecondLayer ==
    /\ info.via = "response"
    /\ doc.generator = << >>
    /\ markup.scripts = << m_jquerySrc, m_wpSrc >>
    /\ markup.className = << >>
    /\ markup.stylesheets = << m_styleTwenty >>
    /\ info.response.version = s_59
    /\ info.response.theme = s_twentytwenty

\* C21: the sender of a 'refresh' message gets {success: true} from a
\* listener that has run its reconcile pass before it answers; the answer to
\* 'getWordPressInfo' is the record of the probe, and answering it changes
\* neither the document, the store, the messages sent nor the instances.
C21_ListenerAnswers ==
    [][/\ reply' # reply =>
             /\ reply'.to = "refresh"
             /\ reply'.value = "success"
             /\ reply'.at = clock + 1
             /\ clock' >= reply'.at
       /\ (info'.via = "response" /\ info'.answered > info.answered) =>
             /\ info'.response = getWordPressInfo(Page(doc, markup))
             /\ UNCHANGED << doc, store, clock, toBg, inst, reply >>]_vars

\* a 'refresh' was answered after a pass, and a 'getWordPressInfo' was answered
C21_Witness ==
    /\ reply.to = "refresh"
    /\ reply.at >= 1
    /\ clock >= reply.at
    /\ info.via = "response"

\* only the relay takes messages out of toBg
RelayStep == Len(toBg') < Len(toBg)

\* C22: for every environmentUpdated message the relay takes, it re-broadcasts
\* one environmentUpdated message with the payload it received; nothing else
\* re-broadcasts, the delivery of a re-broadcast puts no message in front of
\* the relay, and the relay changes neither the store nor the toolbar.
C22_RelayOnce ==
    [][/\ (RelayStep /\ Head(toBg).action = "environmentUpdated") =>
             /\ toExt' = Append(toExt, [action |-> "environmentUpdated",
                                        data |-> Head(toBg).data])
             /\ toBg' = Tail(toBg)
             /\ UNCHANGED << popupOpens, store, tab, bgResult, bgLog >>
       /\ Len(toExt') > Len(toExt) =>
             RelayStep /\ Head(toBg).action = "environmentUpdated"
       /\ Len(toExt') < Len(toExt) => toBg' = toBg]_vars

\* the relay re-broadcast the Development verdict of a pass and holds no
\* message any more
C22_Witness ==
    /\ toBg = << >>
    /\ toExt # << >>
    /\ toExt[Len(toExt)] = [action |-> "environmentUpdated",
                            data |-> createDevelopmentEnvironment(TRUE)]
    /\ store.currentEnvironment = toExt[Len(toExt)].data

\* C23: a message whose tag is neither openPopup nor environmentUpdated is
\* taken by the relay and ignored: no popup is opened, nothing is broadcast,
\* the store, the toolbar and the document stay as they are; the tag is
\* written to the console.
C23_UnknownTagIgnored ==
    [][(RelayStep /\ Head(toBg).action \notin {"openPopup", "environmentUpdated"}) =>
          /\ toBg' = Tail(toBg)
          /\ bgLog' = bgLog \cup {Head(toBg).action}
          /\ UNCHANGED << popupOpens, toExt, store, tab, bgResult, doc, inst, clock,
                          popupUi >>]_vars

\* the relay took a 'refresh' message after a pass had written the store and
\* a verdict had been re-broadcast: nothing but the console shows it
C23_Witness ==
    /\ "refresh" \in bgLog
    /\ toBg = << >>
    /\ popupOpens = 0
    /\ Len(toExt) = 1
    /\ clock = 1

\* a step of the popup, or of the exchange it started with the tab
PopupStep == popupUi' # popupUi \/ info' # info \/ toTab' # toTab

\* C24: no step of the popup (its opening, its refresh on environmentUpdated,
\* its getWordPressInfo request and the answer, the injection fallback)
\* changes the document, the badge, the content scripts or the store, and no
\* message the popup sends to the tab is a 'refresh'.
C24_PopupOnlyReads ==
    /\ [][PopupStep => UNCHANGED << doc, href, inst, store, clock, toBg >>]_vars
    /\ [](\A k \in 1..Len(toTab) : toTab[k].action # "refresh")

\* the popup refreshed twice and got the answer of the content script while
\* the document carries the badge and the store holds the pass's verdict
C24_Witness ==
    /\ popupUi.loads = 2
    /\ info.via = "response"
    /\ BadgeCount(doc) = 1
    /\ store.detectedAt >= 1

\* the injection fallback ran on a document a later pass had badged
C24_WitnessFallback ==
    /\ info.via \in {"injected", "injectionFailed"}
    /\ BadgeCount(doc) = 1
    /\ store.detectedAt >= 1

\* the document without its BadgeNodes
WithoutBadge(d) ==
    [d EXCEPT !.kids = [c \in DOMAIN d.kids |->
                           SelectSeq(d.kids[c], LAMBDA n : n.id # badgeId)]]

\* a task that ran at least one reconcile pass
PassStep == clock' > clock

\* C25 (as stated): a task of reconcile passes changes nothing but the
\* BadgeNode: the document without it, the order of its other nodes, and
\* everything outside the document stay as they were.
C25_OnlyBadgeSubtree ==
    [][PassStep =>
          /\ WithoutBadge(doc') = WithoutBadge(doc)
          /\ UNCHANGED << host, href, store, toBg, toExt, popupOpens >>]_vars

\* C25 (corrected): in the document a task of reconcile passes changes nothing
\* but the BadgeNode, and the URL, the hostname and the extension's queues of
\* delivered messages stay; outside the document a completed pass writes the
\* store and sends one environmentUpdated message per pass.
C25_OnlyBadgeSubtreeInDocument ==
    [][PassStep =>
          /\ WithoutBadge(doc') = WithoutBadge(doc)
          /\ UNCHANGED << host, href, toExt, popupOpens >>
          /\ store' # store => store'.detectedAt \in (clock + 1)..clock'
          /\ \E n \in 0..(clock' - clock) :
                /\ Len(toBg') = Len(toBg) + n
                /\ SubSeq(toBg', 1, Len(toBg)) = toBg
                /\ \A k \in (Len(toBg) + 1)..Len(toBg') :
                      toBg'[k].action = "environmentUpdated"]_vars

\* a pass replaced the badge between two siblings that stayed in their order,
\* and wrote the store
C25_Witness ==
    /\ clock >= 2
    /\ BadgeCount(doc) = 1
    /\ store.detectedAt = clock
    /\ \E c \in DOMAIN doc.kids :
          \E i \in 2..(Len(doc.kids[c]) - 1) : doc.kids[c][i].id = badgeId

\* the content script ran its first pass (init went past document-ready)
InitialPassDone == inst[1].injected /\ ~inst[1].dclPending

\* C26: once the content script ran its first pass, whenever the URL of the
\* document is u, either the URL changes again or a reconcile pass eventually
\* runs for u (the store then holds the path u, written by that pass); the
\* passes the bound leaves room for are the ones looked at.
C26_UrlChangeReconciled ==
    \A u \in Urls :
        (href = u /\ InitialPassDone /\ clock < MaxPasses)
            ~> (href # u \/ store.currentUrl.path = u)

\* the URL changed after the first pass, no node changed since, and the
\* content script has no timer pending: no pass will run for this URL
C26_Witness ==
    /\ InitialPassDone
    /\ inst[1].lastUrl # href
    /\ inst[1].timers = 0
    /\ store.currentUrl.path # href
    /\ clock < MaxPasses

\* the open popup takes a re-broadcast message and refreshes
PopupRefreshStep ==
    /\ popupUi.loads > 0
    /\ toExt # << >>
    /\ toExt' = Tail(toExt)
    /\ popupUi'.loads = popupUi.loads + 1

\* the verdict of the popup's classifier for the URL of the active tab, Null
\* when there is no tab, no parsable URL or no matching rule
PopupVerdict(url) ==
    IF url # << >> /\ URLParse(url).ok
    THEN popup_detectEnvironmentType(URLParse(url).hostname)
    ELSE Null

\* C27: when the open popup receives an environmentUpdated message it
\* refreshes: it reads the URL of the active tab as it is then and classifies
\* it, and the card afterwards shows that verdict (its name and its class),
\* or the no-data state when the verdict is absent, whatever the message
\* carried.
C27_RefreshOnBroadcast ==
    [][PopupRefreshStep =>
          \E v \in {PopupVerdict(tab.url)} :
             /\ tab' = tab
             /\ popupUi'.environmentName = IF v = Null THEN "Aucune donnee" ELSE v.name
             /\ popupUi'.environmentCard =
                   IF v = Null THEN "environment__card"
                   ELSE IF v.type = "development"
                        THEN "environment__card environment__card--development"
                        ELSE "environment__card environment__card--staging"]_vars

\* the popup was opened on the development site and refreshed after the tab
\* had moved to a site without verdict: the card shows no data although the
\* last pass stored Development
C27_Witness ==
    /\ popupUi.loads = 2
    /\ tab.navigations = 1
    /\ PopupVerdict(tab.url) = Null
    /\ popupUi.environmentName = "Aucune donnee"
    /\ store.currentEnvironment # Unset
    /\ toExt = << >>
    /\ toBg = << >>

\* what the environment card shows
CardOf(ui) == << ui.environmentName, ui.environmentCard >>

\* the card for the URL of the active tab, by the popup's own classifier
CardFor(url) ==
    LET v == PopupVerdict(url)
    IN  IF v = Null THEN << "Aucune donnee", "environment__card" >>
        ELSE << v.name,
                IF v.type = "development"
                THEN "environment__card environment__card--development"
                ELSE "environment__card environment__card--staging" >>

InitialRun == DOMContentLoaded \/ \E i \in Instances : InjectContentScript(i)

\* C29 (as stated): after the first run, a reconcile pass runs only when a
\* timer set by the mutation-observer callback fires.
C29_OnlyTimerTriggers ==
    [][PassStep => InitialRun \/ \E i \in Instances : TimerFires(i)]_vars

\* C29 (corrected): after the first run, a reconcile pass runs only when a
\* timer set by the mutation-observer callback fires or when the message
\* listener of the content script receives 'refresh'.
C29_TimerOrRefreshTriggers ==
    [][PassStep => \/ InitialRun
                   \/ \E i \in Instances : TimerFires(i)
                   \/ OnRefreshMessage]_vars

\* a second pass ran in the first document of the tab, whose nodes the page
\* never touched and where no timer is left: the pass came from a 'refresh'
\* message
C29_Witness ==
    /\ inst[1].injected
    /\ \A i \in Instances : i # 1 => ~inst[i].injected
    /\ clock = 2
    /\ pageOps = 0
    /\ tab.navigations = 0
    /\ inst[1].lastUrl = href
    /\ inst[1].timers = 0
    /\ store.detectedAt = 2

\* C30: every task of reconcile passes writes the store and notifies: the
\* store then carries the time of the last pass of the task, every pass sent
\* one environmentUpdated message, and the last message carries the
\* Environment value the store holds.
C30_EveryPassStoresAndNotifies ==
    [][PassStep =>
          /\ store'.detectedAt = clock'
          /\ Len(toBg') = Len(toBg) + (clock' - clock)
          /\ toBg'[Len(toBg')] = [action |-> "environmentUpdated",
                                  data |-> store'.currentEnvironment]]_vars

\* a pass ran on a host without verdict, or on a page that is no WordPress
\* site: the store was never written and no message was sent
C30_Witness ==
    /\ clock >= 1
    /\ store = NoStore
    /\ toBg = << >>
    /\ toExt = << >>

\* C31: on every load of the popup for a tab that has a URL, the card is
\* updated from the verdict and the popup then sends getWordPressInfo to the
\* tab, whatever the verdict is.
C31_RefreshRequestsInfo ==
    [][(popupUi'.loads > popupUi.loads /\ tab.url # << >>) =>
          /\ CardOf(popupUi') = CardFor(tab.url)
          /\ popupUi'.infoRequests = popupUi.infoRequests + 1
          /\ toTab' = Append(toTab, detectWordPressInfo_request)]_vars

\* the popup was opened on a WordPress admin page whose hostname has no
\* verdict, with the content script running there: nothing was asked, the
\* fields show '-'
C31_Witness ==
    /\ popupUi.loads = 1
    /\ PopupVerdict(tab.url) = Null
    /\ isWordPressSite(doc)
    /\ inst[1].injected
    /\ popupUi.infoRequests = 0
    /\ toTab = << >>
    /\ popupUi.wpVersion = s_dash

\* what the toolbar of a tab shows
ToolbarOf(t) == << t.badgeText, t.badgeColor, t.title >>

\* the toolbar of a tab with URL url is the one of the relay's verdict v
ShowsVerdict(t, v) ==
    /\ t.badgeText # "" <=> v # Null
    /\ v # Null => /\ t.badgeColor = v.color
                   /\ t.title = << "WordPress Environment Indicator - ", v.name,
                                   " detected" >>
    /\ v = Null => t.title = << "WordPress Environment Indicator" >>

\* C32: once the relay handled a completed navigation or an activation of a
\* tab with URL u, the badge text of that tab is non-empty exactly when the
\* relay's verdict on u is not absent, with the colour and the tooltip of the
\* verdict, or the default title when absent; a step that changes the toolbar
\* of one tab leaves the toolbar of the other tab as it was.
C32_ToolbarFollowsVerdict ==
    /\ [](bgResult # Unset => ShowsVerdict(tab, detectEnvironmentFromUrl(tab.url)))
    /\ [](tab.other.badgeText # "unset" =>
             ShowsVerdict(tab.other, detectEnvironmentFromUrl(tab.other.url)))
    /\ [][/\ ToolbarOf(tab.other)' # ToolbarOf(tab.other) => ToolbarOf(tab)' = ToolbarOf(tab)
          /\ ToolbarOf(tab)' # ToolbarOf(tab) => tab.other' = tab.other]_vars

\* the second tab went from a development site to a site without verdict:
\* its text is cleared and its title is the default one, while the first tab
\* still shows the badge of its development URL
C32_Witness ==
    /\ tab.other.url = UrlOf(u_https, h_wwwExample, << >>)
    /\ tab.other.badgeText = ""
    /\ tab.other.badgeColor = bg_ENVIRONMENT_COLORS.development
    /\ tab.other.title = << "WordPress Environment Indicator" >>
    /\ tab.badgeText = "env"
    /\ bgResult # Null

\* C33: for every hostname the classifiers of the popup and of the content
\* script, in their current and in their original variant, give verdicts of
\* the same kind: all absent, all Development or all Staging.
C33_ClassifiersAgree ==
    (cResult # Unset /\ pResult # Unset) =>
        /\ pResult.type = cResult.type
        /\ original_detectEnvironment(host).type = cResult.type
        /\ original_detectEnvironmentInPopup(host).type = pResult.type

\* a hostname with an upper-case staging pattern and a development suffix
\* elsewhere in it was classified by both: Staging for all
C33_Witness ==
    /\ cResult.type = "staging"
    /\ pResult.type = "staging"
    /\ ~isStagingEnvironment_caseSensitive(host)
    /\ original_detectEnvironment(host).type = "staging"

\* the openPopup messages the relay has not handled yet
PendingOpenPopup == Cardinality({k \in 1..Len(toBg) : toBg[k].action = "openPopup"})

\* C34: a click on the badge link sends one openPopup message and changes
\* neither the document nor the store; the relay answers an openPopup message
\* with one request to open the popup; every click is eventually followed by
\* its request.
C34_ClickOpensPopup ==
    /\ [][PendingOpenPopup' > PendingOpenPopup =>
             /\ toBg' = Append(toBg, [action |-> "openPopup", data |-> Null])
             /\ UNCHANGED << doc, store, clock, inst, toExt, popupOpens >>]_vars
    /\ [][popupOpens' # popupOpens =>
             /\ toBg # << >> /\ Head(toBg).action = "openPopup"
             /\ toBg' = Tail(toBg)
             /\ popupOpens' = popupOpens + 1
             /\ UNCHANGED << doc, store, toExt >>]_vars
    /\ \A n \in 1..MaxClicks :
          (popupOpens + PendingOpenPopup >= n) ~> (popupOpens >= n)

\* the badge was clicked and the relay asked for the popup; the badge and
\* the store are those of the pass
C34_Witness ==
    /\ popupOpens = 1
    /\ PendingOpenPopup = 0
    /\ BadgeCount(doc) = 1
    /\ store.detectedAt = clock
    /\ clock = 1

\* the element ids of the document
IdsOf(d) == {documentOrder(d)[k].node.id : k \in 1..Len(documentOrder(d))}

\* the four signals, read off the document
AnySignal(d) ==
    \/ "wpadminbar" \in IdsOf(d)
    \/ d.bodyClasses \cap {"wp-admin", "admin-bar"} # {}
    \/ IdsOf(d) \cap {"wpbody", "wpcontent", "wpfooter"} # {}
    \/ d.generator # << >> /\ includes(Head(d.generator), s_WordPress)

\* C35: isWordPressSite is true exactly when at least one of the four signals
\* holds (the admin bar, a body class wp-admin or admin-bar, one of #wpbody,
\* #wpcontent, #wpfooter, the generator meta naming WordPress); trying the
\* methods in the reverse order gives the same result, and so does the
\* original predicate; a pass stores a verdict only for such a document.
C35_PlainDisjunction ==
    /\ isWordPressSite(doc) = AnySignal(doc)
    /\ isWordPressSite_reversed(doc) = isWordPressSite(doc)
    /\ original_isWordPressSite(doc) = isWordPressSite(doc)
    /\ (store.detectedAt = clock /\ clock >= 1 /\ pageOps = 0) => AnySignal(doc)
    /\ (clock >= 1 /\ AnySignal(doc) /\ pageOps = 0) => store.detectedAt = clock

\* a pass stored its verdict on a document whose only signal is the class
\* admin-bar of body
C35_Witness ==
    /\ clock = 1
    /\ store.detectedAt = 1
    /\ doc.bodyClasses = {"admin-bar"}
    /\ IdsOf(doc) = {}
    /\ doc.generator = << s_generatorOther, s_generatorWordPress >>

RECURSIVE SumOver(_, _)
\* the sum of f over the instances 1..n
SumOver(f, n) == IF n = 0 THEN 0 ELSE f[n] + SumOver(f, n - 1)

\* the passes the content scripts still owe: their pending timers, and one
\* for every instance that has not seen the current URL yet
OwedPasses ==
    SumOver([i \in Instances |->
                inst[i].timers + (IF inst[i].injected /\ inst[i].lastUrl # href
                                  THEN 1 ELSE 0)],
            MaxInstances)

\* a step within one document that leaves its URL alone
SameDocumentStep == tab' = tab /\ href' = href

NoDataCard == CardOf(popupUi) = << "Aucune donnee", "environment__card" >>

\* the three information fields show '-'
NoInfoShown ==
    /\ popupUi.wpVersion = s_dash
    /\ popupUi.wpLanguage = s_dash
    /\ popupUi.currentTheme = s_dash

\* C37 (as stated): whenever the card is in the no-data state, the version,
\* the language and the theme show '-'.
C37_NoDataMeansNoInfo == NoDataCard => NoInfoShown

\* C37 (corrected): a load of the popup that ends in the no-data state
\* leaves the three fields at '-'; while the card stays in that state the
\* fields change only when the answer to an earlier getWordPressInfo request
\* or its injection fallback is applied, which writes them whatever the card
\* shows.
C37_NoInfoUntilLateResponse ==
    [][/\ (popupUi'.loads > popupUi.loads /\ NoDataCard') => NoInfoShown'
       /\ (NoDataCard /\ NoDataCard' /\ NoInfoShown /\ ~NoInfoShown') =>
             /\ info'.answered = info.answered + 1
             /\ popupUi'.loads = popupUi.loads
             /\ popupUi'.wpVersion = info'.response.version]_vars

\* the popup asked the development site, the tab moved on, the popup
\* refreshed to the no-data state, and the answer of the content script of
\* the new page then filled the fields
C37_Witness ==
    /\ NoDataCard
    /\ ~NoInfoShown
    /\ info.via = "response"
    /\ popupUi.loads = 2
    /\ tab.navigations = 1

StoredKeys(st) == << st.currentEnvironment, st.currentUrl, st.detectedAt >>

\* C38: the currentEnvironment of the store, when there is one, is the
\* classifier's verdict on the hostname of the currentUrl of the store,
\* whichever tab wrote last; every step that changes one of the three keys is
\* a pass that writes all three with its own verdict, URL and time, and a step
\* that writes version or installedAt leaves the three keys.
C38_StoreFromOnePass ==
    /\ [](store.currentEnvironment # Unset =>
             store.currentEnvironment = detectEnvironmentType(store.currentUrl.hostname))
    /\ [][/\ StoredKeys(store') # StoredKeys(store) =>
                /\ store'.currentEnvironment =
                      detectEnvironmentType(store'.currentUrl.hostname)
                /\ store'.currentEnvironment # Null
                /\ store'.detectedAt = clock'
                /\ clock' > clock
                /\ store'.version = store.version
                /\ store'.installedAt = store.installedAt
          /\ (store'.version # store.version \/ store'.installedAt # store.installedAt) =>
                StoredKeys(store') = StoredKeys(store)]_vars

\* the tab wrote the store on localhost and moved on to a staging site whose
\* pass has not run, a second tab had written before, the install/update
\* handler wrote its marker after the pass: the store still holds the triple
\* of the pass on localhost
C38_Witness ==
    /\ store.currentUrl.hostname = s_localhost
    /\ host = h_stagingExample
    /\ store.currentEnvironment = detectEnvironmentType(s_localhost)
    /\ store.version = "0.1"
    /\ store.installedAt = 2
    /\ store.detectedAt = 2
    /\ Len(toBg) = 2
    /\ toBg[1].data = detectEnvironmentType(h_stagingExample)

\* C39 (as stated): the answer of the content script's probe is the
\* PlatformInfo the original probe returns for the same document.
C39_SameAsOriginalProbe ==
    info.via = "response" =>
       info.response = original_getWordPressInfo(Page(doc, markup))

\* the body class of the document captures the sentinel '-'
CapturesSentinel == match(markup.className, "themeBodyClass") = s_dash

\* what holds instead: the two probes return the same version and language
\* for every document, and the same theme unless the body class captures '-'
C39_SameUnlessSentinel ==
    info.via = "response" =>
       LET original == original_getWordPressInfo(Page(doc, markup))
       IN  /\ info.response.version = original.version
           /\ info.response.language = original.language
           /\ ~CapturesSentinel => info.response.theme = original.theme

\* the body class is 'theme--' and a themes/ stylesheet is linked: the
\* content script answered with the theme of the stylesheet, the original
\* probe returns '-'
C39_Witness ==
    /\ info.via = "response"
    /\ CapturesSentinel
    /\ info.response.theme = << "t", "w", "e", "n", "t", "y", "t", "w", "e", "n", "t", "y" >>
    /\ original_getWordPressInfo(Page(doc, markup)).theme = s_dash

====
